---- MODULE Spec2Model ----
(***************************************************************************)
(* A model of eigenlog: the logging facade (Subscriber), the shippers that *)
(* batch records per severity and deliver them (DataSender, DataSaver),    *)
(* the shutdown drainer, and the HTTP handlers over the sled store.        *)
(***************************************************************************)
EXTENDS Integers, Sequences, FiniteSets, TLC

VARIABLES
    receiver,       \* record channel Subscriber.sender -> shipper.receiver
    flush_request,  \* flush channel Subscriber.flush_requester -> shipper.flush_request
    subscriber,     \* "alive" while the Subscriber (both sending halves) exists
    accepted,       \* number of records Subscriber::log has put on the channel
    flush_replies,  \* flush calls that returned: the request and how rx.recv() ended
    cache,          \* HashMap<log::Level, BTreeMap<Ulid, LogData>>
    generator,      \* ulid::Generator.previous
    now,            \* wall clock, milliseconds
    sender,         \* DataSender.sender: the optional in-flight send
    tasks,          \* FuturesUnordered of sends (subscriber.rs DataSender::run)
    shipper,        \* "running", "done" (future completed), "dropped", "panicked"
    submits,        \* submissions as the sink saw them complete
    errors,         \* error reports: on_result / run_forever's func / stderr
    drained,        \* submission attempts of the shutdown drainer
    lost,           \* records destroyed without any submission attempt
    db,             \* sled::Db: tree name -> (key -> value)
    response,       \* reply of the last HTTP handler call
    cx              \* task::Context of the shipper's task: its wake-ups

vars == <<receiver, flush_request, subscriber, accepted, flush_replies, cache,
          generator, now, sender, tasks, shipper, submits, errors, drained,
          lost, db, response, cx>>

----------------------------------------------------------------------------
(* Bounds of the model *)

MaxRecords == 3

MaxFlush == 1

MaxTime == 2

MaxRand == 0

----------------------------------------------------------------------------
(* Severities *)

LogLevels == {"Error", "Warn", "Info", "Debug", "Trace"}

\* log::Level as usize: Error = 1 .. Trace = 5
LogLevelValue(level) ==
    CASE level = "Error" -> 1
      [] level = "Warn"  -> 2
      [] level = "Info"  -> 3
      [] level = "Debug" -> 4
      [] level = "Trace" -> 5

\* the severities the application logs at: one shipped at once and one
\* batched, for the shippers that write to a store or push every send
LoggedLevels == {"Error", "Info"}

\* the severities the application of the remote shipper logs at: both are
\* shipped from the first record, as with the default limits
RemoteLoggedLevels == {"Error", "Warn"}

\* the CacheLimit the shipper is constructed with
cache_limit == [Error |-> 1, Warn |-> 1, Info |-> 2, Debug |-> 2, Trace |-> 1]

CacheLimitDefault ==
    [Error |-> 1, Warn |-> 1, Info |-> 10, Debug |-> 100, Trace |-> 100]

get_limit(limits, level) ==
    CASE level = "Trace" -> limits.Trace
      [] level = "Debug" -> limits.Debug
      [] level = "Info"  -> limits.Info
      [] level = "Warn"  -> limits.Warn
      [] level = "Error" -> limits.Error

----------------------------------------------------------------------------
(* Identifiers: a Ulid is <<milliseconds, random part>> *)

UlidNil == <<0, 0>>

UlidLess(a, b) == a[1] < b[1] \/ (a[1] = b[1] /\ a[2] < b[2])

\* ulid::Generator::generate at wall-clock time t, with r the random draw:
\* within the same millisecond (or when the clock went back) the previous
\* identifier is incremented, otherwise a fresh random part is drawn.
generate(previous, t, r) ==
    IF t <= previous[1] THEN <<previous[1], previous[2] + 1>> ELSE <<t, r>>

GeneratorNew == UlidNil

----------------------------------------------------------------------------
(* Batches and the cache *)

EmptyBatch == {}

\* BTreeMap::insert: one value per key
batch_insert(batch, id, data) ==
    {e \in batch : e.id # id} \cup {[id |-> id, data |-> data]}

EmptyCache == [l \in {} |-> EmptyBatch]

\* cache.remove(&level).unwrap_or_default(), insert, cache.insert(level, batch)
cache_insert(c, level, id, data) ==
    [l \in (DOMAIN c) \cup {level} |->
        IF l = level
        THEN batch_insert(IF level \in DOMAIN c THEN c[level] ELSE EmptyBatch, id, data)
        ELSE c[l]]

BatchData(batch) == {e.data : e \in batch}

CacheData(c) == UNION {BatchData(c[l]) : l \in DOMAIN c}

----------------------------------------------------------------------------
(* Eligibility *)

\* CacheLimit::should_send of subscriber.rs: `cache` is the whole cache, read
\* before the record just received is added to it.
should_send(limits, level, c) ==
    LET current_len == IF level \in DOMAIN c THEN Cardinality(c[level]) ELSE 0
    IN  get_limit(limits, level) <= current_len + 1

\* a cache holding n records of one level
CacheOf(level, n) == [l \in {level} |-> {[id |-> <<1, i>>, data |-> i] : i \in 1..n}]

\* The oldest entry of a batch is its first key.
Oldest(batch) == CHOOSE e \in batch : \A f \in batch : ~UlidLess(f.id, e.id)

\* CacheLimit::should_send as DataSender::poll calls it: on one severity's
\* batch, after the record was inserted.
should_send_batch(limits, level, batch) ==
    Cardinality(batch) >= get_limit(limits, level)

\* CacheLimit::should_send as DataSaver::run calls it: size or age.
should_send_timed(limits, level, batch, t, timeout) ==
    \/ Cardinality(batch) >= get_limit(limits, level)
    \/ batch # EmptyBatch /\ t - Oldest(batch).id[1] > timeout

----------------------------------------------------------------------------
(* The store: sled::Db as a map from tree names to ordered maps *)

\* impl fmt::Display for Level, as bytes
LevelDisplay(level) ==
    CASE level = "Trace" -> <<"t", "r", "a", "c", "e">>
      [] level = "Debug" -> <<"d", "e", "b", "u", "g">>
      [] level = "Info"  -> <<"i", "n", "f", "o">>
      [] level = "Warn"  -> <<"w", "a", "r", "n">>
      [] level = "Error" -> <<"e", "r", "r", "o", "r">>

\* A variant of get_tree_name: the application comes first
get_tree_name_swapped(level, hostname, application) ==
    application \o <<"-">> \o hostname \o <<"-">> \o LevelDisplay(level)

\* Level::get_tree_name: format!("{}-{}-{}", hostname.name, application.name, self)
get_tree_name(level, hostname, application) ==
    hostname \o <<"-">> \o application \o <<"-">> \o LevelDisplay(level)

\* the tree every sled database holds
SledDefault ==
    <<"_", "_", "s", "l", "e", "d", "_", "_", "d", "e", "f", "a", "u", "l", "t">>

EmptyDb == [name \in {SledDefault} |-> {}]

\* Db::open_tree: the tree is created when it does not exist
open_tree(store, name) ==
    IF name \in DOMAIN store THEN store
    ELSE [n \in (DOMAIN store) \cup {name} |-> IF n = name THEN {} ELSE store[n]]

\* u128::from(ulid).to_be_bytes(): the timestamp bytes, then the random bytes
to_be_bytes(id) == <<id[1], id[2]>>

\* A variant of serialize: the tags are not encoded
serialize_no_tags(data) == [bincode |-> [data EXCEPT !.tags = <<>>]]

\* bincode::serialize(&data)
serialize(data) == [bincode |-> data]

\* A variant of tree_insert: a key keeps the values it had
tree_insert_keep(tree, key, value) == tree \cup {[key |-> key, value |-> value]}

\* Tree::insert: one value per key
tree_insert(tree, key, value) ==
    {kv \in tree : kv.key # key} \cup {[key |-> key, value |-> value]}

RECURSIVE tree_insert_all(_, _)
tree_insert_all(tree, batch) ==
    IF batch = {} THEN tree
    ELSE LET e == CHOOSE x \in batch : TRUE
         IN  tree_insert_all(tree_insert(tree, to_be_bytes(e.id), serialize(e.data)),
                             batch \ {e})

\* Storage::submit for sled::Db
storage_submit(store, host, app, level, log_batch) ==
    LET name == get_tree_name(level, host, app)
        opened == open_tree(store, name)
    IN  [opened EXCEPT ![name] = tree_insert_all(opened[name], log_batch)]

RECURSIVE open_all(_, _, _, _)
open_all(store, host, app, levels) ==
    IF levels = {} THEN store
    ELSE LET l == CHOOSE x \in levels : TRUE
         IN  open_all(open_tree(store, get_tree_name(l, host, app)), host, app,
                      levels \ {l})

\* Storage::flush for sled::Db: opens the tree of every level and flushes it
storage_flush(store, host, app) == open_all(store, host, app, LogLevels)

\* the records a store holds
StoredData(store) ==
    UNION {{kv.value.bincode : kv \in store[n]} : n \in DOMAIN store}

----------------------------------------------------------------------------
(* Initial state *)

NoResponse ==
    [handler |-> "none", key |-> "", result |-> "none", error |-> "",
     body |-> {}, touched |-> FALSE, request |-> <<>>, reply |-> "none"]

\* the task the shipper was spawned as: scheduled for its first poll (woken),
\* its waker not yet registered with the record channel
Spawned == [woken |-> TRUE, receiver |-> FALSE]

Init ==
    /\ receiver = <<>>
    /\ flush_request = <<>>
    /\ subscriber = "alive"
    /\ accepted = 0
    /\ flush_replies = <<>>
    /\ cache = EmptyCache
    /\ generator = GeneratorNew
    /\ now = 1
    /\ sender = <<>>
    /\ tasks = {}
    /\ shipper = "running"
    /\ submits = <<>>
    /\ errors = <<>>
    /\ drained = {}
    /\ lost = {}
    /\ db = EmptyDb
    /\ response = NoResponse
    /\ cx = Spawned

----------------------------------------------------------------------------
(* The Subscriber: impl log::Log *)

\* The sending half of the record channel wakes the receiving task when it
\* sends and when it is dropped: the waker the last poll_recv that returned
\* Pending left with the channel is taken, and the task is scheduled.
WakeReceiver ==
    IF cx.receiver THEN [woken |-> TRUE, receiver |-> FALSE] ELSE cx

\* Subscriber.level: the level the Subscriber was constructed with
SubscriberLevel == "Warn"

\* Subscriber::enabled: self.level >= metadata.level()
enabled(level) == LogLevelValue(SubscriberLevel) >= LogLevelValue(level)

\* Subscriber::log: send (level, data) on the record channel, report the result.
\* (enabled is not called: neither by log nor, before it, by the log macros.)
Log(level) ==
    /\ subscriber = "alive"
    /\ accepted < MaxRecords
    /\ accepted' = accepted + 1
    /\ IF shipper \in {"dropped", "panicked"}
       THEN /\ errors' = Append(errors, [via |-> "on_result", what |-> "log"])
            /\ UNCHANGED <<receiver, cx>>
       ELSE /\ receiver' = Append(receiver, [level |-> level, data |-> accepted + 1])
            /\ cx' = WakeReceiver
            /\ UNCHANGED errors
    /\ UNCHANGED <<flush_request, subscriber, flush_replies, cache, generator, now,
                   sender, tasks, shipper, submits, drained, lost, db, response>>

LogAny == \E level \in LoggedLevels : Log(level)

LogRemote == \E level \in RemoteLoggedLevels : Log(level)

\* Subscriber::flush, up to the blocking rx.recv(): the request carries the
\* number of records accepted before the call.
FlushCall ==
    /\ subscriber = "alive"
    /\ shipper \in {"running", "done"}
    /\ Len(flush_request) + Len(flush_replies) < MaxFlush
    /\ flush_request' = Append(flush_request, accepted)
    /\ UNCHANGED <<receiver, subscriber, accepted, flush_replies, cache, generator,
                   now, sender, tasks, shipper, submits, errors, drained, lost, db, response,
                   cx>>

\* The Subscriber is dropped: both channels are closed from the sending side.
\* (A flush call borrows the Subscriber until it returns.)
SubscriberDrop ==
    /\ subscriber = "alive"
    /\ flush_request = <<>>
    /\ subscriber' = "dropped"
    /\ cx' = WakeReceiver
    /\ UNCHANGED <<receiver, flush_request, accepted, flush_replies, cache, generator,
                   now, sender, tasks, shipper, submits, errors, drained, lost, db, response>>

\* SystemTime::now(): the wall clock does not go back, so a reading is at
\* least the previous reading.
ClockReadings == now..MaxTime

----------------------------------------------------------------------------
(* The remote shipper: impl Future for DataSender (subscriber/remote.rs) *)

\* the state of the send in the slot: "none", "new" (never polled), "pending"
\* (request under way), "ok" / "err" (answered, result not yet taken)
SenderState == IF sender = <<>> THEN "none" ELSE sender[1].state

\* receiver.poll_recv: Ready(None) once the channel is closed and drained
ChannelClosed == receiver = <<>> /\ subscriber = "dropped"

\* the cache after the receive step of poll (a record, when there is one, is
\* inserted under a freshly generated identifier)
PollRecvId(t, r) == generate(generator, t, r)

\* A variant of PollRecvCache: the record starts a batch of its own, in place
\* of the batch cached under its level
PollRecvCacheFresh(t, r) ==
    IF receiver = <<>> THEN cache
    ELSE [l \in (DOMAIN cache) \cup {Head(receiver).level} |->
            IF l = Head(receiver).level
            THEN batch_insert(EmptyBatch, PollRecvId(t, r), Head(receiver).data)
            ELSE cache[l]]

PollRecvCache(t, r) ==
    IF receiver = <<>> THEN cache
    ELSE cache_insert(cache, Head(receiver).level, PollRecvId(t, r), Head(receiver).data)

PollRecv(t, r) ==
    IF receiver = <<>>
    THEN UNCHANGED <<receiver, generator, now>>
    ELSE /\ receiver' = Tail(receiver)
         /\ generator' = PollRecvId(t, r)
         /\ now' = t

\* the clock readings and random draws that make a difference to this poll
PollClock == IF receiver = <<>> THEN {now} ELSE ClockReadings

PollDraws(t) == IF receiver = <<>> \/ t <= generator[1] THEN {0} ELSE 0..MaxRand

\* poll_recv returned Ready(None): the future completes at once.
PollChannelClosed ==
    /\ shipper = "running"
    /\ ChannelClosed
    /\ shipper' = "done"
    /\ UNCHANGED <<receiver, flush_request, subscriber, accepted, flush_replies, cache,
                   generator, now, sender, tasks, submits, errors, drained, lost, db, response,
                   cx>>

\* The in-flight send is polled and is not finished: it is put back and poll
\* returns Pending.  (Its first poll is what starts the request.)
PollSendPending ==
    /\ shipper = "running"
    /\ ~ChannelClosed
    /\ SenderState \in {"new", "pending"}
    /\ \E t \in PollClock : \E r \in PollDraws(t) :
        /\ PollRecv(t, r)
        /\ cache' = PollRecvCache(t, r)
    /\ sender' = <<[sender[1] EXCEPT !.state = "pending"]>>
    /\ UNCHANGED <<flush_request, subscriber, accepted, flush_replies, tasks,
                   shipper, submits, errors, drained, lost, db, response, cx>>

\* The levels the scan of detached_cache may stop at: HashMap::iter_mut visits
\* the keys in an unspecified order, so the first eligible one met is any
\* eligible one.
ScanChoices(c) == {l \in DOMAIN c : should_send_batch(cache_limit, l, c[l])}

\* A variant of ScanInstall: the scan does not stop at the first eligible batch: every eligible
\* batch is detached, each new send replacing the one installed before it
ScanInstallNoBreak(c, level) ==
    /\ sender' = <<[level |-> level, batch |-> c[level], state |-> "new"]>>
    /\ cache' = [l \in DOMAIN c |->
                    IF should_send_batch(cache_limit, l, c[l]) THEN EmptyBatch ELSE c[l]]
    /\ lost' = lost \cup UNION {BatchData(c[l]) :
                    l \in {k \in DOMAIN c : should_send_batch(cache_limit, k, c[k])} \ {level}}
    /\ UNCHANGED drained

\* the scan installs a send for `level` and leaves an empty batch under it
ScanInstall(c, level) ==
    /\ sender' = <<[level |-> level, batch |-> c[level], state |-> "new"]>>
    /\ cache' = [c EXCEPT ![level] = EmptyBatch]
    /\ UNCHANGED <<drained, lost>>

\* No send in flight, or the previous send has finished (an error is written
\* to stderr): scan the cache and install at most one new send.
PollScan ==
    /\ shipper = "running"
    /\ ~ChannelClosed
    /\ SenderState \in {"none", "ok", "err"}
    /\ errors' = IF SenderState = "err"
                 THEN Append(errors, [via |-> "stderr", what |-> sender[1].level])
                 ELSE errors
    /\ \E t \in PollClock : \E r \in PollDraws(t) :
        /\ PollRecv(t, r)
        /\ LET c == PollRecvCache(t, r)
           IN  IF ScanChoices(c) = {}
               THEN sender' = <<>> /\ cache' = c /\ UNCHANGED <<drained, lost>>
               ELSE \E level \in ScanChoices(c) : ScanInstall(c, level)
    /\ UNCHANGED <<flush_request, subscriber, accepted, flush_replies, tasks,
                   shipper, submits, db, response, cx>>

\* The collector answers the request of the in-flight send: the send, which
\* was polled with the task's waker, wakes the task.
SinkRespond ==
    /\ shipper = "running"
    /\ SenderState = "pending"
    /\ \E result \in {"ok", "err"} :
        /\ sender' = <<[sender[1] EXCEPT !.state = result]>>
        /\ submits' = Append(submits, [level |-> sender[1].level,
                                       batch |-> sender[1].batch,
                                       via |-> "send", result |-> result])
    /\ cx' = [cx EXCEPT !.woken = TRUE]
    /\ UNCHANGED <<receiver, flush_request, subscriber, accepted, flush_replies, cache,
                   generator, now, tasks, shipper, errors, drained, lost, db, response>>

----------------------------------------------------------------------------
(* The shutdown drainer: impl Drop for DataSender (subscriber/remote.rs) *)

\* A variant of DrainAttempted: a failed submission ends the drainer's loop
DrainAttemptedStopOnError(levels, results) ==
    IF \A l \in levels : results[l] = "ok" THEN levels
    ELSE {CHOOSE l \in levels : results[l] = "err"}

\* The drainer thread's loop over the queued (level, batch) messages: the
\* levels that get a submission attempt.  Serializing a batch does not fail
\* and the prepared request can be cloned, so the loop only ends at the
\* closing None message; send_batch swallows (prints) the error of a failed
\* submission.
DrainAttempted(levels, results) == levels

\* one attempt of the drainer; result "err" stands for the line send_batch
\* prints to stderr
DrainAttempt(c, level, result) ==
    [level |-> level, batch |-> c[level], via |-> "drain", result |-> result]

\* the send in the slot is destroyed with the DataSender
SenderCancelled ==
    IF SenderState \in {"new", "pending"}
    THEN <<[level |-> sender[1].level, batch |-> sender[1].batch,
            via |-> "send", result |-> "cancelled"]>>
    ELSE <<>>

ReceiverData == {receiver[i].data : i \in 1..Len(receiver)}

\* The DataSender is dropped (while running, or after its future completed):
\* the cache is taken and every (level, batch) in it is handed to the drainer
\* thread, which is joined before drop returns.  The receiving half of the
\* flush channel goes with the other fields: the reply senders queued in it
\* are destroyed, which ends the rx.recv() of the flush calls that wait.
DropSender ==
    /\ shipper \in {"running", "done"}
    /\ shipper' = "dropped"
    /\ \E results \in [DOMAIN cache -> {"ok", "err"}] :
        LET attempted == DrainAttempted(DOMAIN cache, results)
        IN  /\ drained' = {DrainAttempt(cache, l, results[l]) : l \in attempted}
            /\ lost' = lost \cup ReceiverData
                            \cup UNION {BatchData(cache[l]) :
                                           l \in (DOMAIN cache) \ attempted}
    /\ submits' = submits \o SenderCancelled
    /\ cache' = EmptyCache
    /\ sender' = <<>>
    /\ receiver' = <<>>
    /\ flush_request' = <<>>
    /\ flush_replies' = flush_replies \o
            [i \in 1..Len(flush_request) |->
                [accepted |-> flush_request[i], result |-> "disconnected"]]
    /\ UNCHANGED <<subscriber, accepted, generator, now, tasks, errors, db, response, cx>>

\* One call of poll by the executor, which polls a task that was woken.
\* poll_recv leaves the task's waker with the channel when it returns Pending.
\* When it returns a record it has as a rule not touched the waker; it has
\* left it only if the record was sent while poll_recv was looking at an
\* empty channel, so either outcome is possible.  A send that is polled
\* keeps the waker until it completes; the send a scan installs is not
\* polled, and flush_request is not polled.
poll ==
    /\ shipper = "running"
    /\ cx.woken
    /\ IF ChannelClosed
       THEN /\ shipper' = "done"
            /\ cx' = [woken |-> FALSE, receiver |-> FALSE]
            /\ UNCHANGED <<receiver, generator, now, cache, sender, errors, drained, lost>>
       ELSE /\ \E left \in (IF receiver = <<>> THEN {TRUE} ELSE BOOLEAN) :
                cx' = [woken |-> FALSE, receiver |-> left]
            /\ UNCHANGED shipper
            /\ \E t \in PollClock : \E r \in PollDraws(t) :
                /\ PollRecv(t, r)
                /\ LET c == PollRecvCache(t, r)
                   IN  IF SenderState \in {"new", "pending"}
                       THEN /\ sender' = <<[sender[1] EXCEPT !.state = "pending"]>>
                            /\ cache' = c
                            /\ UNCHANGED <<errors, drained, lost>>
                       ELSE /\ errors' = IF SenderState = "err"
                                         THEN Append(errors, [via |-> "stderr",
                                                              what |-> sender[1].level])
                                         ELSE errors
                            /\ IF ScanChoices(c) = {}
                               THEN sender' = <<>> /\ cache' = c /\ UNCHANGED <<drained, lost>>
                               ELSE \E level \in ScanChoices(c) : ScanInstall(c, level)
    /\ UNCHANGED <<flush_request, subscriber, accepted, flush_replies, tasks, submits, db,
                   response>>

NextRemote ==
    \/ LogRemote
    \/ DropSender
    \/ SubscriberDrop
    \/ PollChannelClosed
    \/ PollSendPending
    \/ PollScan
    \/ SinkRespond

SpecRemote == Init /\ [][NextRemote]_vars

\* The remote shipper as a task of the executor, with the flush calls of the
\* application.  The executor polls a woken task, and the collector answers
\* a request that was sent; the application may stop logging, and may keep
\* the Subscriber and the DataSender for ever.
NextTask ==
    \/ LogRemote
    \/ FlushCall
    \/ SubscriberDrop
    \/ DropSender
    \/ poll
    \/ SinkRespond

SpecTask == Init /\ [][NextTask]_vars /\ WF_vars(poll) /\ WF_vars(SinkRespond)

----------------------------------------------------------------------------
(* The local shipper: DataSaver (subscriber/local.rs) *)

\* the host and app the shipper was constructed with
ShipperHost == <<"h">>

ShipperApp == <<"a">>

\* DataSaver.cache_timeout, in milliseconds
cache_timeout == 0

\* A variant of LocalEligible: eligibility is decided on the cache as it was before the record
\* just received was inserted
LocalEligibleBeforeInsert(c, t) ==
    {l \in DOMAIN c :
        should_send_timed(cache_limit, l,
                          IF l \in DOMAIN cache THEN cache[l] ELSE EmptyBatch,
                          t, cache_timeout)}

\* the batches a scan ships: every eligible one
LocalEligible(c, t) ==
    {l \in DOMAIN c : should_send_timed(cache_limit, l, c[l], t, cache_timeout)}

RECURSIVE submit_all(_, _, _)
submit_all(store, c, levels) ==
    IF levels = {} THEN store
    ELSE LET l == CHOOSE x \in levels : TRUE
         IN  submit_all(storage_submit(store, ShipperHost, ShipperApp, l, c[l]), c,
                        levels \ {l})

\* what run leaves in self.cache when storage.submit fails: the cache was
\* moved into detached_cache, which the early return destroys
CacheAfterSubmitError(c, failed, shipped) == EmptyCache

\* A record is received: it is inserted, then every eligible batch is
\* submitted to the storage.  All submissions succeed.
RunRecord ==
    /\ shipper = "running"
    /\ receiver # <<>>
    /\ \E t \in ClockReadings : \E r \in PollDraws(t) :
        LET c == PollRecvCache(t, r)
            eligible == LocalEligible(c, t)
        IN  /\ PollRecv(t, r)
            /\ db' = submit_all(db, c, eligible)
            /\ cache' = [l \in DOMAIN c |-> IF l \in eligible THEN EmptyBatch ELSE c[l]]
    /\ UNCHANGED <<flush_request, subscriber, accepted, flush_replies, sender, tasks,
                   shipper, submits, errors, drained, lost, response, cx>>

\* A record is received and the submission of an eligible batch fails, after
\* the batches visited before it were submitted: run returns the error and
\* run_forever hands it to func, then calls run again.
RunRecordError ==
    /\ shipper = "running"
    /\ receiver # <<>>
    /\ \E t \in ClockReadings : \E r \in PollDraws(t) :
        LET c == PollRecvCache(t, r)
            eligible == LocalEligible(c, t)
        IN  /\ PollRecv(t, r)
            /\ \E failed \in eligible : \E shipped \in SUBSET (eligible \ {failed}) :
                /\ db' = submit_all(db, c, shipped)
                /\ cache' = CacheAfterSubmitError(c, failed, shipped)
                /\ errors' = Append(errors, [via |-> "func", what |-> failed])
                /\ lost' = lost \cup (CacheData(c)
                                \ (CacheData(cache') \cup
                                   UNION {BatchData(c[l]) : l \in shipped}))
    /\ UNCHANGED <<flush_request, subscriber, accepted, flush_replies, sender, tasks,
                   shipper, submits, drained, response, cx>>

\* A flush request is taken (select polls the record channel first, so only
\* when no record is waiting): the storage is flushed and the reply
\* signalled.  The cache is not touched.
RunFlush ==
    /\ shipper = "running"
    /\ receiver = <<>>
    /\ flush_request # <<>>
    /\ db' = storage_flush(db, ShipperHost, ShipperApp)
    /\ flush_replies' = Append(flush_replies,
                            [accepted |-> Head(flush_request), result |-> "ok"])
    /\ flush_request' = Tail(flush_request)
    /\ UNCHANGED <<receiver, subscriber, accepted, cache, generator, now, sender, tasks,
                   shipper, submits, errors, drained, lost, response, cx>>

\* storage.flush fails: the error goes to func and the reply channel is
\* destroyed unsignalled.
RunFlushError ==
    /\ shipper = "running"
    /\ receiver = <<>>
    /\ flush_request # <<>>
    /\ flush_request' = Tail(flush_request)
    /\ flush_replies' = Append(flush_replies,
                            [accepted |-> Head(flush_request), result |-> "disconnected"])
    /\ errors' = Append(errors, [via |-> "func", what |-> "flush"])
    /\ UNCHANGED <<receiver, subscriber, accepted, cache, generator, now,
                   sender, tasks, shipper, submits, drained, lost, db, response, cx>>

ClosedReported == errors # <<>> /\ errors[Len(errors)].what = "closed"

\* The channel is closed: run returns LogSubscriberClosed, run_forever hands
\* it to func and calls run again, which returns the same error, without end.
\* Of consecutive identical reports the record keeps one.
RunClosed ==
    /\ shipper = "running"
    /\ ChannelClosed
    /\ errors' = IF ClosedReported THEN errors
                 ELSE Append(errors, [via |-> "func", what |-> "closed"])
    /\ UNCHANGED <<receiver, flush_request, subscriber, accepted, flush_replies, cache,
                   generator, now, sender, tasks, shipper, submits, drained, lost, db,
                   response, cx>>

NextLocal ==
    \/ LogAny
    \/ FlushCall
    \/ SubscriberDrop
    \/ RunRecord
    \/ RunRecordError
    \/ RunFlush
    \/ RunFlushError
    \/ RunClosed

SpecLocal == Init /\ [][NextLocal]_vars

\* The wall clock advances, whether or not the shipper reads it.
Tick ==
    /\ now < MaxTime
    /\ now' = now + 1
    /\ UNCHANGED <<receiver, flush_request, subscriber, accepted, flush_replies, cache,
                   generator, sender, tasks, shipper, submits, errors, drained, lost, db,
                   response, cx>>

\* The local shipper with the passing of time.  run awaits the two channels
\* in a select, which wakes it for every record and every flush request, so
\* a step of run that stays possible is taken; the application may stop
\* logging at any time.
SpecLocalFair ==
    /\ Init
    /\ [][NextLocal \/ Tick]_vars
    /\ WF_vars(RunRecord \/ RunRecordError)
    /\ WF_vars(RunFlush \/ RunFlushError)
    /\ WF_vars(Tick)

----------------------------------------------------------------------------
(* The shippers of subscriber.rs: DataSender::run and DataSaver::run, each a
   loop around tokio::select!, which takes any branch that is ready. *)

\* send_batch(..) pushed on the FuturesUnordered
send_batch(level, batch) == [level |-> level, batch |-> batch, state |-> "pending"]

\* DataSender::run, the record branch: the record is sent at once, alone,
\* when should_send holds of the cache; nothing else is done with it.
SenderRunRecord ==
    /\ shipper = "running"
    /\ receiver # <<>>
    /\ LET level == Head(receiver).level
           data == Head(receiver).data
       IN  /\ receiver' = Tail(receiver)
           /\ IF should_send(cache_limit, level, cache)
              THEN \E t \in ClockReadings, r \in 0..MaxRand :
                    LET id == generate(GeneratorNew, t, r)
                        batch == batch_insert(IF level \in DOMAIN cache
                                              THEN cache[level] ELSE EmptyBatch,
                                              id, data)
                    IN  /\ now' = t
                        /\ cache' = [l \in (DOMAIN cache) \ {level} |-> cache[l]]
                        /\ tasks' = tasks \cup {send_batch(level, batch)}
                        /\ UNCHANGED lost
              ELSE /\ lost' = lost \cup {data}
                   /\ UNCHANGED <<now, cache, tasks>>
    /\ UNCHANGED <<flush_request, subscriber, accepted, flush_replies, generator, sender,
                   shipper, submits, errors, drained, db, response, cx>>

\* DataSender::run, the flush branch: every cached batch is pushed as a send
\* and the reply is signalled at once.
SenderRunFlush ==
    /\ shipper = "running"
    /\ flush_request # <<>>
    /\ tasks' = tasks \cup {send_batch(l, cache[l]) : l \in DOMAIN cache}
    /\ cache' = EmptyCache
    /\ flush_replies' = Append(flush_replies,
                            [accepted |-> Head(flush_request), result |-> "ok"])
    /\ flush_request' = Tail(flush_request)
    /\ UNCHANGED <<receiver, subscriber, accepted, generator, now, sender, shipper,
                   submits, errors, drained, lost, db, response, cx>>

\* The collector answers the request of one of the pushed sends.
SendBatchRespond ==
    /\ shipper = "running"
    /\ \E task \in tasks, result \in {"ok", "err"} :
        /\ task.state = "pending"
        /\ tasks' = (tasks \ {task}) \cup {[task EXCEPT !.state = result]}
        /\ submits' = Append(submits, [level |-> task.level, batch |-> task.batch,
                                       via |-> "send", result |-> result])
    /\ UNCHANGED <<receiver, flush_request, subscriber, accepted, flush_replies, cache,
                   generator, now, sender, shipper, errors, drained, lost, db, response,
                   cx>>

\* DataSender::run, the tasks.next() branch: a finished send is taken off
\* the FuturesUnordered and its result is discarded.
SenderRunTaskNext ==
    /\ shipper = "running"
    /\ \E task \in tasks :
        /\ task.state \in {"ok", "err"}
        /\ tasks' = tasks \ {task}
    /\ UNCHANGED <<receiver, flush_request, subscriber, accepted, flush_replies, cache,
                   generator, now, sender, shipper, submits, errors, drained, lost, db,
                   response, cx>>

\* select! with every branch disabled and no else branch: both channels are
\* closed and empty and no send is left.
SenderRunPanic ==
    /\ shipper = "running"
    /\ ChannelClosed
    /\ flush_request = <<>>
    /\ tasks = {}
    /\ shipper' = "panicked"
    /\ UNCHANGED <<receiver, flush_request, subscriber, accepted, flush_replies, cache,
                   generator, now, sender, tasks, submits, errors, drained, lost, db,
                   response, cx>>

NextSender ==
    \/ LogAny
    \/ FlushCall
    \/ SubscriberDrop
    \/ SenderRunRecord
    \/ SenderRunFlush
    \/ SendBatchRespond
    \/ SenderRunTaskNext
    \/ SenderRunPanic

SpecSender == Init /\ [][NextSender]_vars

\* DataSaver::run, the record branch: a new generator for every record, the
\* record inserted in the tree of its level under the id it generates.
SaverRunRecord ==
    /\ shipper = "running"
    /\ receiver # <<>>
    /\ \E t \in ClockReadings, r \in 0..MaxRand :
        LET level == Head(receiver).level
            data == Head(receiver).data
            id == generate(GeneratorNew, t, r)
            name == get_tree_name(level, ShipperHost, ShipperApp)
            opened == open_tree(db, name)
        IN  /\ now' = t
            /\ db' = [opened EXCEPT ![name] =
                         tree_insert(opened[name], to_be_bytes(id), serialize(data))]
            /\ submits' = Append(submits,
                              [level |-> level,
                               batch |-> batch_insert(EmptyBatch, id, data),
                               via |-> "insert", result |-> "ok"])
    /\ receiver' = Tail(receiver)
    /\ UNCHANGED <<flush_request, subscriber, accepted, flush_replies, cache, generator,
                   sender, tasks, shipper, errors, drained, lost, response, cx>>

\* open_tree or insert fails: run returns the error, run_forever hands it to
\* func and calls run again; the record is gone.
SaverRunRecordError ==
    /\ shipper = "running"
    /\ receiver # <<>>
    /\ receiver' = Tail(receiver)
    /\ errors' = Append(errors, [via |-> "func", what |-> Head(receiver).level])
    /\ lost' = lost \cup {Head(receiver).data}
    /\ UNCHANGED <<flush_request, subscriber, accepted, flush_replies, cache, generator,
                   now, sender, tasks, shipper, submits, drained, db, response, cx>>

\* DataSaver::run, the flush branch
SaverRunFlush ==
    /\ shipper = "running"
    /\ flush_request # <<>>
    /\ db' = open_all(db, ShipperHost, ShipperApp, LogLevels)
    /\ flush_replies' = Append(flush_replies,
                            [accepted |-> Head(flush_request), result |-> "ok"])
    /\ flush_request' = Tail(flush_request)
    /\ UNCHANGED <<receiver, subscriber, accepted, cache, generator, now, sender, tasks,
                   shipper, submits, errors, drained, lost, response, cx>>

\* a flush of a tree fails: the reply channel is destroyed unsignalled
SaverRunFlushError ==
    /\ shipper = "running"
    /\ flush_request # <<>>
    /\ flush_replies' = Append(flush_replies,
                            [accepted |-> Head(flush_request), result |-> "disconnected"])
    /\ flush_request' = Tail(flush_request)
    /\ errors' = Append(errors, [via |-> "func", what |-> "flush"])
    /\ UNCHANGED <<receiver, subscriber, accepted, cache, generator, now, sender, tasks,
                   shipper, submits, drained, lost, db, response, cx>>

\* select! with both branches disabled and no else branch
SaverRunPanic ==
    /\ shipper = "running"
    /\ ChannelClosed
    /\ flush_request = <<>>
    /\ shipper' = "panicked"
    /\ UNCHANGED <<receiver, flush_request, subscriber, accepted, flush_replies, cache,
                   generator, now, sender, tasks, submits, errors, drained, lost, db,
                   response, cx>>

NextSaver ==
    \/ LogAny
    \/ FlushCall
    \/ SubscriberDrop
    \/ SaverRunRecord
    \/ SaverRunRecordError
    \/ SaverRunFlush
    \/ SaverRunFlushError
    \/ SaverRunPanic

SpecSaver == Init /\ [][NextSaver]_vars

----------------------------------------------------------------------------
(* Partition names: TreeName::from_bytes and the parsers it uses (lib.rs) *)

Ok(value) == [ok |-> TRUE, value |-> value]
Err(error) == [ok |-> FALSE, error |-> error]

UpperChars ==
    <<"A", "B", "C", "D", "E", "F", "G", "H", "I", "J", "K", "L", "M",
      "N", "O", "P", "Q", "R", "S", "T", "U", "V", "W", "X", "Y", "Z">>

LowerChars ==
    <<"a", "b", "c", "d", "e", "f", "g", "h", "i", "j", "k", "l", "m",
      "n", "o", "p", "q", "r", "s", "t", "u", "v", "w", "x", "y", "z">>

DigitChars == <<"0", "1", "2", "3", "4", "5", "6", "7", "8", "9">>

Range(seq) == {seq[i] : i \in DOMAIN seq}

\* the character class [A-Za-z0-9]
AlnumChars == Range(UpperChars) \cup Range(LowerChars) \cup Range(DigitChars)

\* A variant of HOST_REGEX: the expression without its anchors
HOST_REGEX_unanchored(s) == \E i \in DOMAIN s : s[i] \in AlnumChars

\* HOST_REGEX, APP_REGEX: ^[A-Za-z0-9]+$
HOST_REGEX(s) ==
    /\ s # <<>>
    /\ \A i \in DOMAIN s : s[i] \in AlnumChars

\* impl FromStr for Host, impl FromStr for App
host_from_str(s) == IF HOST_REGEX(s) THEN Ok(s) ELSE Err("HostParseError")

\* char::to_lowercase
LowerOf == [c \in Range(UpperChars) |->
               LowerChars[CHOOSE j \in DOMAIN UpperChars : UpperChars[j] = c]]

\* str::to_lowercase
to_lowercase(s) ==
    [i \in DOMAIN s |-> IF s[i] \in DOMAIN LowerOf THEN LowerOf[s[i]] ELSE s[i]]

\* A variant of level_from_str: an unknown name is taken as Info
level_from_str_default(s) ==
    LET lower == to_lowercase(s)
    IN  IF \E level \in LogLevels : LevelDisplay(level) = lower
        THEN Ok(CHOOSE level \in LogLevels : LevelDisplay(level) = lower)
        ELSE Ok("Info")

\* impl FromStr for Level
level_from_str(s) ==
    LET lower == to_lowercase(s)
    IN  IF \E level \in LogLevels : LevelDisplay(level) = lower
        THEN Ok(CHOOSE level \in LogLevels : LevelDisplay(level) = lower)
        ELSE Err("Unexpected logging level")

\* String::from_utf8_lossy: a byte that is no UTF-8 becomes U+FFFD
from_utf8_lossy(bytes) ==
    [i \in DOMAIN bytes |-> IF bytes[i] = "0xFF" THEN "U+FFFD" ELSE bytes[i]]

\* TreeName::from_bytes
from_bytes(bytes) ==
    LET indicies == {i \in DOMAIN bytes : bytes[i] = "-"}
    IN  IF Cardinality(indicies) # 2
        THEN Err("ParseTreeNameFromBytes")
        ELSE LET i0 == CHOOSE i \in indicies : \A j \in indicies : i <= j
                 i1 == CHOOSE i \in indicies : \A j \in indicies : j <= i
                 host == host_from_str(from_utf8_lossy(SubSeq(bytes, 1, i0 - 1)))
                 app == host_from_str(from_utf8_lossy(SubSeq(bytes, i0 + 1, i1 - 1)))
                 level == level_from_str(
                              from_utf8_lossy(SubSeq(bytes, i1 + 1, Len(bytes))))
             IN  IF host.ok /\ app.ok /\ level.ok
                 THEN Ok([host |-> host.value, app |-> app.value, level |-> level.value])
                 ELSE Err("ParseTreeNameFromBytes")

\* impl ToString for TreeName
to_string(tree_name) == get_tree_name(tree_name.level, tree_name.host, tree_name.app)

\* enum Level { Trace = 4, Debug = 3, Info = 2, Warn = 1, Error = 0 } with the
\* derived Ord
LevelDiscriminant(level) ==
    CASE level = "Trace" -> 4
      [] level = "Debug" -> 3
      [] level = "Info"  -> 2
      [] level = "Warn"  -> 1
      [] level = "Error" -> 0

----------------------------------------------------------------------------
(* The HTTP handlers of server.rs over a sled::Db *)

\* the configured allowlist
api_keys == {"k1"}

\* the X-API-KEY values requests carry
RequestKeys == {"k1", "k0"}

Hosts == {<<"h">>, <<"h", "2">>}
Apps == {<<"a">>}
ServerLevels == {"Error", "Info", "Debug"}

\* the largest timestamp part and the largest random part of an id
TimeAllOnes == MaxTime + 1
RandAllOnes == MaxRand + MaxRecords

BodyEntries == {[id |-> <<1, 0>>, data |-> 1], [id |-> <<MaxTime, MaxRand>>, data |-> 2]}

\* request bodies: an encoded LogBatch, or bytes that decode to none
Bodies ==
    {[valid |-> FALSE, batch |-> EmptyBatch]}
        \cup {[valid |-> TRUE, batch |-> b] : b \in {EmptyBatch, BodyEntries}}

\* bincode::deserialize::<LogBatch>(&bytes)
deserialize(bytes) == IF bytes.valid THEN Ok(bytes.batch) ELSE Err("Bincode")

\* A variant of api_key_allowed: no handler checks the key
api_key_allowed_always(api_key) == TRUE

\* api_keys.contains(&api_key)
api_key_allowed(api_key) == api_key \in api_keys

\* error_to_reply: an Ok reply is sent; of an error, Error::to_reply is todo!()
error_to_reply(handler, api_key, touched, maybe_err) ==
    [handler |-> handler, key |-> api_key,
     result |-> IF maybe_err.ok THEN "Ok" ELSE "Err",
     error |-> IF maybe_err.ok THEN "" ELSE maybe_err.error,
     body |-> IF maybe_err.ok THEN maybe_err.value ELSE {},
     touched |-> touched, request |-> <<>>,
     reply |-> IF maybe_err.ok THEN "sent" ELSE "panicked"]

\* async fn submit
submit ==
    /\ \E api_key \in RequestKeys :
        IF ~api_key_allowed(api_key)
        THEN /\ response' = error_to_reply("submit", api_key, FALSE, Err("InvalidApiKey"))
             /\ UNCHANGED db
        ELSE \E host \in Hosts, app \in Apps, level \in ServerLevels, bytes \in Bodies :
                \E batch \in {deserialize(bytes)} :
                    IF ~batch.ok
                    THEN /\ response' = error_to_reply("submit", api_key, FALSE, batch)
                         /\ UNCHANGED db
                    ELSE /\ db' = storage_submit(db, host, app, level, batch.value)
                         /\ response' = error_to_reply("submit", api_key, TRUE, Ok({}))
    /\ UNCHANGED <<receiver, flush_request, subscriber, accepted, flush_replies, cache,
                   generator, now, sender, tasks, shipper, submits, errors, drained,
                   lost, cx>>

\* Option<T> as a sequence of at most one element
None == <<>>
Some(value) == <<value>>
unwrap_or(option, default) == IF option = None THEN default ELSE option[1]

\* str::contains
contains(input, f) ==
    \E i \in 0..(Len(input) - Len(f)) : SubSeq(input, i + 1, i + Len(f)) = f

filter_with_option(input, filter) ==
    IF filter = None THEN TRUE ELSE contains(input, filter[1])

\* ulid::Ulid::from_datetime: the timestamp and fresh random bits
from_datetime(t, r) == <<t, r>>

\* bytes 6..16 of the big-endian form are the random part
ulid_floor(input) == <<input[1], 0>>

\* A variant of ulid_ceiling: the random part is left as drawn
ulid_ceiling_unfilled(input) == input

ulid_ceiling(input) == <<input[1], RandAllOnes>>

u128_MIN == <<0, 0>>
u128_MAX == <<TimeAllOnes, RandAllOnes>>

\* order of keys: big-endian bytes compared lexicographically
KeyLeq(a, b) == a[1] < b[1] \/ (a[1] = b[1] /\ a[2] <= b[2])

\* tree.range(start..=end)
tree_range(tree, start, end) == {kv \in tree : KeyLeq(start, kv.key) /\ KeyLeq(kv.key, end)}

\* the parameters of GET /query
QueryInputs ==
    [max_log_level : {None, Some("Error"), Some("Debug")},
     start_timestamp : {None} \cup {Some(t) : t \in 1..MaxTime},
     end_timestamp : {None, Some(1)},
     host_contains : {None, Some(<<"2">>)},
     app_contains : {None}]

\* db.tree_names().iter().filter_map(|t| TreeName::from_bytes(&t).ok())
parsed_tree_names(store) ==
    {t.value : t \in {p \in {from_bytes(n) : n \in DOMAIN store} : p.ok}}

\* query: the trees kept by the name filters
relevant_trees(parsed, params) ==
    {t \in parsed :
        /\ filter_with_option(t.host, params.host_contains)
        /\ filter_with_option(t.app, params.app_contains)
        /\ LevelDiscriminant(t.level)
               >= LevelDiscriminant(unwrap_or(params.max_log_level, "Info"))}

RECURSIVE open_trees(_, _)
open_trees(store, names) ==
    IF names = {} THEN store
    ELSE LET n == CHOOSE x \in names : TRUE
         IN  open_trees(open_tree(store, n), names \ {n})

\* the random bits from_datetime draws: none without a start_timestamp
DatetimeDraws(params) == IF params.start_timestamp = None THEN {0} ELSE 0..MaxRand

\* query past the key check
query_allowed(api_key, parsed, params, r) ==
    \E trees \in {relevant_trees(parsed, params)} :
    \E opened \in {open_trees(db, {to_string(t) : t \in trees})} :
        LET start == IF params.start_timestamp = None THEN u128_MIN
                     ELSE ulid_floor(from_datetime(params.start_timestamp[1], r))
            end == IF params.start_timestamp = None THEN u128_MAX
                   ELSE ulid_ceiling(from_datetime(params.start_timestamp[1], r))
            hits == UNION {{[host |-> t.host, app |-> t.app, level |-> t.level,
                             id |-> kv.key, data |-> kv.value.bincode] :
                               kv \in tree_range(opened[to_string(t)], start, end)} :
                           t \in trees}
        IN  /\ db' = opened
            /\ response' = [error_to_reply("query", api_key, TRUE, Ok(hits))
                                EXCEPT !.request = Some(params)]

\* async fn query
query ==
    /\ \E api_key \in RequestKeys :
        IF ~api_key_allowed(api_key)
        THEN /\ response' = error_to_reply("query", api_key, FALSE, Err("InvalidApiKey"))
             /\ UNCHANGED db
        ELSE \E parsed \in {parsed_tree_names(db)} :
             \E params \in QueryInputs : \E r \in DatetimeDraws(params) :
                query_allowed(api_key, parsed, params, r)
    /\ UNCHANGED <<receiver, flush_request, subscriber, accepted, flush_replies, cache,
                   generator, now, sender, tasks, shipper, submits, errors, drained,
                   lost, cx>>

\* tree_name_to_info (server.rs)
tree_name_to_info(store, name) ==
    LET parsed == from_bytes(name)
    IN  IF ~parsed.ok THEN parsed
        ELSE IF store[name] = {} THEN Ok(None)
        ELSE LET first == CHOOSE kv \in store[name] :
                              \A o \in store[name] : KeyLeq(kv.key, o.key)
                 last == CHOOSE kv \in store[name] :
                              \A o \in store[name] : KeyLeq(o.key, kv.key)
             IN  Ok(Some([host |-> parsed.value.host, app |-> parsed.value.app,
                          level |-> parsed.value.level,
                          min |-> first.key[1], max |-> last.key[1]]))

\* async fn info: the first tree whose summary fails fails the call
info ==
    /\ \E api_key \in RequestKeys :
        IF ~api_key_allowed(api_key)
        THEN response' = error_to_reply("info", api_key, FALSE, Err("InvalidApiKey"))
        ELSE LET infos == {tree_name_to_info(db, n) : n \in DOMAIN db}
             IN  IF \E i \in infos : ~i.ok
                 THEN response' = error_to_reply("info", api_key, TRUE,
                                      CHOOSE i \in infos : ~i.ok)
                 ELSE response' = error_to_reply("info", api_key, TRUE,
                                      Ok({i.value[1] : i \in {j \in infos : j.value # None}}))
    /\ UNCHANGED <<receiver, flush_request, subscriber, accepted, flush_replies, cache,
                   generator, now, sender, tasks, shipper, submits, errors, drained,
                   lost, db, cx>>

NextServer ==
    \/ submit
    \/ query
    \/ info

SpecServer == Init /\ [][NextServer]_vars

----------------------------------------------------------------------------
(* Storage of db/sled_impl.rs: submit, query and info over a sled::Db *)

\* tree names that submit did not write: foo_bar holds one '-' only and
\* parses to no TreeName; upper_info parses, with an upper-case level
ForeignNames ==
    [foo_bar |-> <<"f", "o", "o", "-", "b", "a", "r">>,
     upper_info |-> <<"h", "-", "a", "-", "I", "N", "F", "O">>]

\* the stores a Storage is opened on: fresh, or with empty trees that were
\* not created by submit
StorageInits == {open_trees(EmptyDb, names) : names \in SUBSET Range(ForeignNames)}

\* the partitions submit is called for
StoragePartitions ==
    {[host |-> <<"h">>, app |-> <<"a">>, level |-> "Error"],
     [host |-> <<"h", "2">>, app |-> <<"a">>, level |-> "Info"],
     [host |-> <<"h">>, app |-> <<"a">>, level |-> "Debug"]}

\* LogData, of which the queries read the message
Messages ==
    [apple |-> [message |-> <<"a", "p", "p", "l", "e">>],
     banana |-> [message |-> <<"b", "a", "n", "a", "n", "a">>],
     cherry |-> [message |-> <<"c", "h", "e", "r", "r", "y">>]]

\* a LogBatch whose ids lie on both sides of the millisecond boundaries
StorageEntries ==
    {[id |-> <<0, RandAllOnes>>, data |-> Messages.apple],
     [id |-> <<1, 0>>, data |-> Messages.banana],
     [id |-> <<1, RandAllOnes>>, data |-> Messages.cherry],
     [id |-> <<MaxTime, 0>>, data |-> Messages.banana]}

\* the pattern strings of message_matches and message_not_matches: literals,
\* and an unclosed group
Patterns == [an |-> <<"a", "n">>, ban |-> <<"b", "a", "n">>, unclosed |-> <<"(">>]

\* regex::Regex::new: a string of letters and digits compiles to the
\* expression matching itself; an unclosed group is a syntax error
regex_new(s) == IF Range(s) \subseteq AlnumChars THEN Ok(s) ELSE Err("Regex")

\* QueryParams
StorageQueryInputs ==
    [max_log_level : {None, Some("Error"), Some("Debug")},
     start_timestamp : {None} \cup {Some(t) : t \in 1..MaxTime},
     end_timestamp : {None} \cup {Some(t) : t \in 0..(MaxTime - 1)},
     host_contains : {None, Some(<<"2">>)},
     app_contains : {None},
     message_matches : {None, Some(Patterns.an), Some(Patterns.unclosed)},
     message_not_matches : {None, Some(Patterns.ban), Some(Patterns.unclosed)},
     max_results : {None, Some(0), Some(1)}]

\* Vec orders of a set: tree_names() lists the trees in no specified order
Orderings(S) ==
    {seq \in [1..Cardinality(S) -> S] :
        \A i, j \in 1..Cardinality(S) : i # j => seq[i] # seq[j]}

\* A variant of storage_relevant_trees: the level comparison of server.rs
storage_relevant_trees_ge(parsed, params) ==
    {t \in parsed :
        /\ filter_with_option(t.host, params.host_contains)
        /\ filter_with_option(t.app, params.app_contains)
        /\ LevelDiscriminant(t.level)
               >= LevelDiscriminant(unwrap_or(params.max_log_level, "Info"))}

\* Storage::query: the trees kept by the name filters
storage_relevant_trees(parsed, params) ==
    {t \in parsed :
        /\ filter_with_option(t.host, params.host_contains)
        /\ filter_with_option(t.app, params.app_contains)
        /\ LevelDiscriminant(t.level)
               <= LevelDiscriminant(unwrap_or(params.max_log_level, "Info"))}

\* the items of a range in the order the iterator yields them: ascending keys
RECURSIVE Ascending(_)
Ascending(items) ==
    IF items = {} THEN <<>>
    ELSE LET first == CHOOSE kv \in items : \A o \in items : KeyLeq(kv.key, o.key)
         IN  <<first>> \o Ascending(items \ {first})

\* Option<Result<Regex>>::transpose of the compiled pattern
compile(pattern) ==
    IF pattern = None THEN Ok(None)
    ELSE IF regex_new(pattern[1]).ok THEN Ok(Some(regex_new(pattern[1]).value))
    ELSE regex_new(pattern[1])

\* A variant of keep_item: an entry the inclusion pattern matches is kept
\* whatever the exclusion pattern says
keep_item_inclusion_first(must_match, must_not_match, value) ==
    IF must_match # None THEN contains(value.message, must_match[1])
    ELSE ~(must_not_match # None /\ contains(value.message, must_not_match[1]))

\* the two `continue`s of the loop body: any_not_matches, then any_matches;
\* Regex::is_match of a literal is str::contains
keep_item(must_match, must_not_match, value) ==
    LET any_not_matches ==
            unwrap_or(IF must_not_match = None THEN None
                      ELSE Some(contains(value.message, must_not_match[1])), FALSE)
        any_matches ==
            unwrap_or(IF must_match = None THEN None
                      ELSE Some(contains(value.message, must_match[1])), TRUE)
    IN  IF any_not_matches THEN FALSE ELSE any_matches

\* A variant of capped: the loop never breaks
capped_never(max_results, rows) == FALSE

\* Some(max_results) if max_results < rows => break
capped(max_results, rows) == max_results # None /\ max_results[1] < rows

\* for item in tree.range(start..=end): acc holds response and rows
RECURSIVE scan_range(_, _, _, _, _)
scan_range(items, tree_name, params, regexes, acc) ==
    IF items = <<>> THEN acc
    ELSE IF capped(params.max_results, acc.rows) THEN acc
    ELSE IF ~keep_item(regexes.must_match, regexes.must_not_match,
                       Head(items).value.bincode)
    THEN scan_range(Tail(items), tree_name, params, regexes, acc)
    ELSE scan_range(Tail(items), tree_name, params, regexes,
            [response |-> Append(acc.response,
                             [host |-> tree_name.host, app |-> tree_name.app,
                              level |-> tree_name.level, id |-> Head(items).key,
                              data |-> Head(items).value.bincode]),
             rows |-> acc.rows + 1])

\* for tree_name in relevant_trees: each tree is opened, then scanned
RECURSIVE scan_trees(_, _, _, _, _, _, _)
scan_trees(store, order, start, end, params, regexes, acc) ==
    IF order = <<>> THEN [db |-> store, result |-> Ok(acc.response)]
    ELSE LET name == to_string(Head(order))
             opened == open_tree(store, name)
         IN  scan_trees(opened, Tail(order), start, end, params, regexes,
                 scan_range(Ascending(tree_range(opened[name], start, end)),
                            Head(order), params, regexes, acc))

\* A variant of storage_query: the patterns are compiled when the first
\* entry is about to be tested, after the trees before it were scanned
storage_query_compile_late(store, params, order, r_start, r_end) ==
    LET start == IF params.start_timestamp = None THEN u128_MIN
                 ELSE ulid_floor(from_datetime(params.start_timestamp[1], r_start))
        end == IF params.end_timestamp = None THEN u128_MAX
               ELSE ulid_ceiling(from_datetime(params.end_timestamp[1], r_end))
        must_match == compile(params.message_matches)
        must_not_match == compile(params.message_not_matches)
        opened == open_trees(store, {to_string(t) : t \in Range(order)})
    IN  IF ~must_match.ok THEN [db |-> opened, result |-> must_match]
        ELSE IF ~must_not_match.ok THEN [db |-> opened, result |-> must_not_match]
        ELSE scan_trees(store, order, start, end, params,
                        [must_match |-> must_match.value,
                         must_not_match |-> must_not_match.value],
                        [response |-> <<>>, rows |-> 0])

\* Storage::query over the relevant trees in the order tree_names() gave
storage_query(store, params, order, r_start, r_end) ==
    LET start == IF params.start_timestamp = None THEN u128_MIN
                 ELSE ulid_floor(from_datetime(params.start_timestamp[1], r_start))
        end == IF params.end_timestamp = None THEN u128_MAX
               ELSE ulid_ceiling(from_datetime(params.end_timestamp[1], r_end))
        must_match == compile(params.message_matches)
        must_not_match == compile(params.message_not_matches)
    IN  IF ~must_match.ok THEN [db |-> store, result |-> must_match]
        ELSE IF ~must_not_match.ok THEN [db |-> store, result |-> must_not_match]
        ELSE scan_trees(store, order, start, end, params,
                        [must_match |-> must_match.value,
                         must_not_match |-> must_not_match.value],
                        [response |-> <<>>, rows |-> 0])

\* the result of a Storage call, kept for the caller
storage_result(handler, request, maybe_err) ==
    [handler |-> handler, key |-> "",
     result |-> IF maybe_err.ok THEN "Ok" ELSE "Err",
     error |-> IF maybe_err.ok THEN "" ELSE maybe_err.error,
     body |-> IF maybe_err.ok THEN maybe_err.value ELSE <<>>,
     touched |-> TRUE, request |-> request, reply |-> "none"]

\* a run fills the store with submits and then makes one other call
ReadDone ==
    response.handler \in {"Storage::query", "Storage::info", "Storage::detail",
                          "Storage::flush"}

InitStorage ==
    /\ receiver = <<>>
    /\ flush_request = <<>>
    /\ subscriber = "alive"
    /\ accepted = 0
    /\ flush_replies = <<>>
    /\ cache = EmptyCache
    /\ generator = GeneratorNew
    /\ now = 1
    /\ sender = <<>>
    /\ tasks = {}
    /\ shipper = "running"
    /\ submits = <<>>
    /\ errors = <<>>
    /\ drained = {}
    /\ lost = {}
    /\ db \in StorageInits
    /\ response = NoResponse
    /\ cx = Spawned

\* Storage::submit
StorageSubmit ==
    /\ ~ReadDone
    /\ \E p \in StoragePartitions, log_batch \in {EmptyBatch, StorageEntries} :
        /\ db' = storage_submit(db, p.host, p.app, p.level, log_batch)
        /\ response' = storage_result("Storage::submit", None, Ok(<<>>))
    /\ UNCHANGED <<receiver, flush_request, subscriber, accepted, flush_replies, cache,
                   generator, now, sender, tasks, shipper, submits, errors, drained,
                   lost, cx>>

\* Storage::query
StorageQuery ==
    /\ ~ReadDone
    /\ \E params \in StorageQueryInputs :
       \E trees \in {storage_relevant_trees(parsed_tree_names(db), params)} :
       \E order \in Orderings(trees) :
       \E r_start \in (IF params.start_timestamp = None THEN {0} ELSE 0..MaxRand) :
       \E r_end \in (IF params.end_timestamp = None THEN {0} ELSE 0..MaxRand) :
       \E out \in {storage_query(db, params, order, r_start, r_end)} :
            /\ db' = out.db
            /\ response' = storage_result("Storage::query", Some(params), out.result)
    /\ UNCHANGED <<receiver, flush_request, subscriber, accepted, flush_replies, cache,
                   generator, now, sender, tasks, shipper, submits, errors, drained,
                   lost, cx>>

\* Storage::info: what one tree name adds to the list
info_element(store, name) ==
    LET maybe_info == tree_name_to_info(store, name)
    IN  IF ~maybe_info.ok
        THEN Err([kind |-> "invalid", name |-> from_utf8_lossy(name),
                  cause |-> maybe_info.error])
        ELSE IF maybe_info.value = None
        THEN Err([kind |-> "empty", name |-> from_utf8_lossy(name)])
        ELSE Ok(maybe_info.value[1])

\* A variant of storage_info: the first tree name that does not parse fails
\* the call, as in the handler of server.rs
storage_info_propagate(store, order) ==
    IF \E i \in DOMAIN order : ~tree_name_to_info(store, order[i]).ok
    THEN tree_name_to_info(store,
             order[CHOOSE i \in DOMAIN order : ~tree_name_to_info(store, order[i]).ok])
    ELSE Ok([i \in DOMAIN order |-> info_element(store, order[i])])

\* Storage::info over the tree names in the order tree_names() gave
storage_info(store, order) ==
    Ok([i \in DOMAIN order |-> info_element(store, order[i])])

\* Storage::info
StorageInfo ==
    /\ ~ReadDone
    /\ \E order \in Orderings(DOMAIN db \ {SledDefault}) :
        response' = storage_result("Storage::info", None, storage_info(db, order))
    /\ UNCHANGED <<receiver, flush_request, subscriber, accepted, flush_replies, cache,
                   generator, now, sender, tasks, shipper, submits, errors, drained,
                   lost, db, cx>>

\* the length of a UTC calendar day, in the unit of the id timestamps
MillisPerDay == 2

\* A variant of date_of: the date of a clock that is ahead of UTC
date_of_offset(ms) == (ms + 1) \div MillisPerDay

\* ulid_key.datetime().naive_local().date() of a DateTime<Utc>
date_of(ms) == ms \div MillisPerDay

\* Storage::detail: the tree is opened, its rows are counted by date
storage_detail(store, host, app, level) ==
    LET name == get_tree_name(level, host, app)
        opened == open_tree(store, name)
        dates == {date_of(kv.key[1]) : kv \in opened[name]}
        row_detail == [date \in dates |->
                          Cardinality({kv \in opened[name] : date_of(kv.key[1]) = date})]
        RECURSIVE sum(_)
        sum(left) == IF left = {} THEN 0
                     ELSE LET date == CHOOSE x \in left : TRUE
                          IN  row_detail[date] + sum(left \ {date})
    IN  [db |-> opened,
         result |-> Ok([app |-> app, host |-> host, level |-> level,
                        rows |-> sum(dates), row_detail |-> row_detail])]

\* Storage::detail
StorageDetail ==
    /\ ~ReadDone
    /\ \E p \in StoragePartitions :
       \E out \in {storage_detail(db, p.host, p.app, p.level)} :
            /\ db' = out.db
            /\ response' = storage_result("Storage::detail", Some(p), out.result)
    /\ UNCHANGED <<receiver, flush_request, subscriber, accepted, flush_replies, cache,
                   generator, now, sender, tasks, shipper, submits, errors, drained,
                   lost, cx>>

\* Storage::flush
StorageFlush ==
    /\ ~ReadDone
    /\ \E p \in StoragePartitions :
        /\ db' = storage_flush(db, p.host, p.app)
        /\ response' = storage_result("Storage::flush",
                            Some([host |-> p.host, app |-> p.app]), Ok(<<>>))
    /\ UNCHANGED <<receiver, flush_request, subscriber, accepted, flush_replies, cache,
                   generator, now, sender, tasks, shipper, submits, errors, drained,
                   lost, cx>>

NextStorage ==
    \/ StorageSubmit
    \/ StorageQuery
    \/ StorageInfo
    \/ StorageDetail
    \/ StorageFlush

SpecStorage == InitStorage /\ [][NextStorage]_vars

----------------------------------------------------------------------------
(* The parsers of lib.rs and the key encoding, applied to drawn inputs *)

\* the bytes of a key (16 in the code) and the values of a byte (256)
KeyBytes == 3
ByteBase == 3

\* A variant of u128_to_be_bytes: the least significant byte first
u128_to_le_bytes(n) ==
    [i \in 1..KeyBytes |-> (n \div (ByteBase ^ (i - 1))) % ByteBase]

\* u128::to_be_bytes: the most significant byte first
u128_to_be_bytes(n) ==
    [i \in 1..KeyBytes |-> (n \div (ByteBase ^ (KeyBytes - i))) % ByteBase]

\* ivec_be_to_u128: a length check, then u128::from_be_bytes
ivec_be_to_u128(vec) ==
    LET RECURSIVE from_be_bytes(_)
        from_be_bytes(bytes) ==
            IF bytes = <<>> THEN 0
            ELSE bytes[Len(bytes)]
                     + ByteBase * from_be_bytes(SubSeq(bytes, 1, Len(bytes) - 1))
    IN  IF Len(vec) # KeyBytes THEN Err("InvalidLengthBytesForUlid")
        ELSE Ok(from_be_bytes(vec))

\* the inputs of the parsers. strs: strings a Host or an App is parsed from,
\* all of up to three characters of a small alphabet and the two of the
\* tests; tree_names: byte sequences a TreeName is parsed from, up to four
\* segments joined by '-'; names: valid hosts and apps a tree name is made of
CodecInputs ==
    LET segments == {<<>>, <<"h">>, <<"Z", "9">>, <<"h", " ">>, <<"0xFF">>,
                     <<"i", "n", "f", "o">>, <<"I", "N", "F", "O">>,
                     <<"W", "a", "r", "n">>, <<"i", "n", "f">>}
        RECURSIVE join(_)
        join(parts) == IF Len(parts) = 1 THEN parts[1]
                       ELSE parts[1] \o <<"-">> \o join(Tail(parts))
    IN  [strs |-> UNION {[1..n -> {"a", "Z", "7", "-", " "}] : n \in 0..3}
                      \cup {<<"a", "b", "c", "1", "2", "3">>,
                            <<"a", "b", "c", "-", "1", "2", "3">>},
         tree_names |-> {join(parts) :
                            parts \in UNION {[1..n -> segments] : n \in 1..4}},
         names |-> UNION {[1..n -> {"a", "Z", "7"}] : n \in 1..2}]

\* Host::from_str, App::from_str
ParseHost ==
    /\ response = NoResponse
    /\ \E s \in CodecInputs.strs :
        response' = storage_result("Host::from_str", Some(s), host_from_str(s))
    /\ UNCHANGED <<receiver, flush_request, subscriber, accepted, flush_replies, cache,
                   generator, now, sender, tasks, shipper, submits, errors, drained,
                   lost, db, cx>>

\* TreeName::from_bytes
ParseTreeName ==
    /\ response = NoResponse
    /\ \E bytes \in CodecInputs.tree_names :
        response' = storage_result("TreeName::from_bytes", Some(bytes), from_bytes(bytes))
    /\ UNCHANGED <<receiver, flush_request, subscriber, accepted, flush_replies, cache,
                   generator, now, sender, tasks, shipper, submits, errors, drained,
                   lost, db, cx>>

\* Level::get_tree_name, then TreeName::from_bytes of the name
FormatTreeName ==
    /\ response = NoResponse
    /\ \E host \in CodecInputs.names, app \in CodecInputs.names, level \in LogLevels :
        response' = storage_result("Level::get_tree_name",
                        Some([host |-> host, app |-> app, level |-> level]),
                        from_bytes(get_tree_name(level, host, app)))
    /\ UNCHANGED <<receiver, flush_request, subscriber, accepted, flush_replies, cache,
                   generator, now, sender, tasks, shipper, submits, errors, drained,
                   lost, db, cx>>

\* u128::from(key).to_be_bytes() of two ids, and ivec_be_to_u128 of the first key
EncodeKey ==
    /\ response = NoResponse
    /\ \E a \in 0..(ByteBase ^ KeyBytes - 1), b \in 0..(ByteBase ^ KeyBytes - 1) :
        response' = storage_result("u128::to_be_bytes", Some([a |-> a, b |-> b]),
                        Ok([a |-> u128_to_be_bytes(a), b |-> u128_to_be_bytes(b),
                            decoded |-> ivec_be_to_u128(u128_to_be_bytes(a))]))
    /\ UNCHANGED <<receiver, flush_request, subscriber, accepted, flush_replies, cache,
                   generator, now, sender, tasks, shipper, submits, errors, drained,
                   lost, db, cx>>

\* ivec_be_to_u128 of a key of any length
DecodeKey ==
    /\ response = NoResponse
    /\ \E vec \in UNION {[1..n -> 0..(ByteBase - 1)] : n \in 0..(KeyBytes + 1)} :
        response' = storage_result("ivec_be_to_u128", Some(vec), ivec_be_to_u128(vec))
    /\ UNCHANGED <<receiver, flush_request, subscriber, accepted, flush_replies, cache,
                   generator, now, sender, tasks, shipper, submits, errors, drained,
                   lost, db, cx>>

NextCodec ==
    \/ ParseHost
    \/ ParseTreeName
    \/ FormatTreeName
    \/ EncodeKey
    \/ DecodeKey

SpecCodec == Init /\ [][NextCodec]_vars

----------------------------------------------------------------------------
(* Batches written to one partition of a fresh store and read back *)

\* the submits of a run
MaxWrites == 2

\* batches of whole LogData records; the second and the third hold the same
\* id with different records
RoundTripBatches ==
    LET data(message, line, tags) ==
            [message |-> message, code_module |-> <<"m">>, code_line |-> line,
             code_file |-> <<"f">>, tags |-> tags]
    IN  {EmptyBatch,
         {[id |-> <<0, RandAllOnes>>, data |-> data(Messages.apple.message, 1, <<>>)],
          [id |-> <<1, 0>>, data |-> data(Messages.banana.message, 2, <<"t">>)]},
         {[id |-> <<1, 0>>, data |-> data(Messages.cherry.message, 3, <<>>)],
          [id |-> <<MaxTime, 0>>, data |-> data(Messages.banana.message, 4, <<"t">>)]},
         {[id |-> <<1, RandAllOnes>>, data |-> data(Messages.apple.message, 1, <<>>)]}}

\* Storage::submit, each call to the partition of the first
WriteBatch ==
    /\ ~ReadDone
    /\ Len(submits) < MaxWrites
    /\ \E p \in StoragePartitions, log_batch \in RoundTripBatches :
        /\ submits # <<>> => p = submits[1].partition
        /\ db' = storage_submit(db, p.host, p.app, p.level, log_batch)
        /\ submits' = Append(submits, [partition |-> p, batch |-> log_batch])
        /\ response' = storage_result("Storage::submit", None, Ok(<<>>))
    /\ UNCHANGED <<receiver, flush_request, subscriber, accepted, flush_replies, cache,
                   generator, now, sender, tasks, shipper, errors, drained, lost, cx>>

NextRoundTrip ==
    \/ WriteBatch
    \/ StorageQuery

SpecRoundTrip == Init /\ [][NextRoundTrip]_vars

----------------------------------------------------------------------------
(* Claims about the remote shipper *)

\* a poll has just installed a new send
Installed == sender' # sender /\ SenderState' = "new"

\* C3: whenever the remote shipper installs a new send and more than one
\* severity's batch is eligible, the batch chosen is the one of the most
\* significant eligible severity (Error before Warn, Info, Debug, Trace).
C3_SeverityPriority ==
    [][Installed =>
        \A l \in DOMAIN cache' :
            should_send_batch(cache_limit, l, cache'[l])
                => LogLevelValue(sender'[1].level) < LogLevelValue(l)]_vars

\* the record a step took off the channel
Received == IF Len(receiver') < Len(receiver) THEN {Head(receiver).data} ELSE {}

\* the records a step removed from the cache
Detached == (CacheData(cache) \cup Received) \ CacheData(cache')

\* C4: a new send is installed only when the slot is empty or holds a finished
\* send, and a poll detaches at most one batch: the records that leave the
\* cache are exactly those of the one send installed, so never is a second
\* send started beside (or in place of) an unfinished one.
C4_OneSendInFlight ==
    [][shipper' = "running" =>
        IF Installed
        THEN /\ SenderState \in {"none", "ok", "err"}
             /\ Detached = BatchData(sender'[1].batch)
             /\ lost' = lost
        ELSE Detached = {}]_vars

\* a send is under way while another batch waits, eligible, in the cache
C4_Witness == SenderState = "pending" /\ ScanChoices(cache) # {}

\* C6: when the record channel closes while a send is in flight, the future
\* of the remote shipper completes only after that send has finished.
C6_DrainsInFlightSend ==
    shipper = "done" => SenderState \notin {"new", "pending"}

----------------------------------------------------------------------------
(* Claims about the local shipper *)

\* C1: every record that Subscriber::log accepted before a call of
\* Subscriber::flush has been delivered to the sink by the time that call
\* returns; the reply is never signalled while such a record is still cached.
\* (Records whose submission failed and was reported through func are set
\* aside: the property is about the records the shipper still holds.)
C1_FlushBarrier ==
    \A i \in 1..Len(flush_replies) :
        flush_replies[i].result = "ok"
            => \A d \in 1..flush_replies[i].accepted : d \in StoredData(db) \cup lost

\* the step is the failure of a submission: func was handed its error
SubmitFailed ==
    /\ Len(errors') = Len(errors) + 1
    /\ errors'[Len(errors')].what \in LogLevels

FailedLevel == errors'[Len(errors')].what

\* C5: when a storage.submit fails, the error is reported, the shipper keeps
\* running, and only the failing batch is dropped: the records of every other
\* severity are still in the cache or were delivered.
C5_OnlyFailingBatchDropped ==
    [][SubmitFailed =>
        /\ shipper' = "running"
        /\ \A l \in (DOMAIN cache) \ {FailedLevel} :
            BatchData(cache[l]) \subseteq CacheData(cache') \cup StoredData(db')
        /\ Head(receiver).level # FailedLevel
            => Head(receiver).data \in CacheData(cache') \cup StoredData(db')]_vars

\* the batch of level l after the record just received was inserted
BatchAfterInsert(l) ==
    (IF l \in DOMAIN cache THEN cache[l] ELSE EmptyBatch)
        \cup (IF Head(receiver).level = l
              THEN {[id |-> generator', data |-> Head(receiver).data]}
              ELSE {})

\* CacheLimit::default: Error and Warn are eligible from the first record,
\* Info from the 10th, Debug and Trace from the 100th
DefaultLimitsEligibility ==
    \A n \in 0..100 :
        /\ should_send(CacheLimitDefault, "Error", CacheOf("Error", n))
        /\ should_send(CacheLimitDefault, "Warn", CacheOf("Warn", n))
        /\ should_send(CacheLimitDefault, "Info", CacheOf("Info", n)) <=> n + 1 >= 10
        /\ should_send(CacheLimitDefault, "Debug", CacheOf("Debug", n)) <=> n + 1 >= 100
        /\ should_send(CacheLimitDefault, "Trace", CacheOf("Trace", n)) <=> n + 1 >= 100

----------------------------------------------------------------------------
(* Claims about the shippers of subscriber.rs *)

\* the sends pushed by the step
Pushed == tasks' \ tasks

\* C2: every record received is inserted into the batch of its severity; no
\* send for a severity is issued while fewer than limit(severity) records
\* have accumulated for it, and when the limit is reached exactly one send
\* goes out carrying the accumulated records; no record is discarded for
\* being below the limit.
C2_ThresholdBatching ==
    [][(shipper = "running" /\ Len(receiver') < Len(receiver)) =>
        LET level == Head(receiver).level
            data == Head(receiver).data
            before == IF level \in DOMAIN cache THEN BatchData(cache[level]) ELSE {}
        IN  IF Cardinality(before) + 1 < get_limit(cache_limit, level)
            THEN /\ Pushed = {}
                 /\ level \in DOMAIN cache'
                 /\ BatchData(cache'[level]) = before \cup {data}
            ELSE /\ Cardinality(Pushed) = 1
                 /\ \A task \in Pushed : /\ task.level = level
                                         /\ BatchData(task.batch) = before \cup {data}]_vars

\* the ids given to records, with the record's place in the order of receipt
AssignedIds ==
    UNION {{[level |-> submits[i].level, id |-> e.id, data |-> e.data] :
                e \in submits[i].batch} : i \in 1..Len(submits)}

\* C9: of two records of one severity received by one shipper, the one
\* received first has the strictly smaller id.
C9_IdsIncrease ==
    \A a, b \in AssignedIds :
        (a.level = b.level /\ a.data < b.data) => UlidLess(a.id, b.id)

----------------------------------------------------------------------------
(* Claims about the HTTP handlers *)

\* C10: on the submit, query and info handlers a request whose X-API-KEY value
\* is not in the allowlist yields InvalidApiKey and leaves the storage
\* untouched: no partition is created, no entry written, no data returned.
C10_Authentication ==
    [][(response'.handler \in {"submit", "query", "info"}
            /\ response'.key \notin api_keys) =>
        /\ response'.result = "Err"
        /\ response'.error = "InvalidApiKey"
        /\ response'.body = {}
        /\ ~response'.touched
        /\ db' = db]_vars

\* a query with a key outside the allowlist was answered while the store
\* held entries
C10_Witness ==
    /\ response.handler = "query"
    /\ response.key \notin api_keys
    /\ StoredData(db) # {}

\* C11: every error of a handler is converted into an HTTP reply that carries
\* the error; the conversion never aborts the handler, so a request that
\* ends in an error (an invalid key, a body that does not decode) is still
\* answered.
C11_ErrorReply ==
    (response.handler \in {"submit", "query", "info"} /\ response.result = "Err")
        => response.reply = "sent"

\* C13: with a valid key the info handler answers for any store content, the
\* default partition included: a partition without a summary does not fail
\* the call.
C13_InfoDegrades ==
    (response.handler = "info" /\ response.key \in api_keys)
        => response.result = "Ok"

\* the parameters and the hits of a query the handler answered
QueryAnswered == response'.handler = "query" /\ response'.result = "Ok"

\* C15: the query handler returns only entries of a severity equal to or
\* more significant than max_log_level (Info when absent), and without time
\* bounds it omits none of them.
C15_QuerySeverity ==
    [][QueryAnswered =>
        LET params == response'.request[1]
            max == LevelDiscriminant(unwrap_or(params.max_log_level, "Info"))
        IN  /\ \A hit \in response'.body : LevelDiscriminant(hit.level) <= max
            /\ (params.start_timestamp = None /\ params.end_timestamp = None) =>
                \A host \in Hosts, app \in Apps, level \in ServerLevels :
                    LET name == get_tree_name(level, host, app)
                    IN  (/\ name \in DOMAIN db'
                         /\ LevelDiscriminant(level) <= max
                         /\ filter_with_option(host, params.host_contains)
                         /\ filter_with_option(app, params.app_contains)) =>
                            \A kv \in db'[name] :
                                \E hit \in response'.body :
                                    /\ hit.id = kv.key
                                    /\ hit.level = level
                                    /\ hit.host = host
                                    /\ hit.app = app]_vars

\* C16: the query handler takes the upper bound of the range from
\* end_timestamp and the lower bound from start_timestamp: every hit lies
\* between the two, and of a partition that contributes a hit every entry
\* between the two is a hit.
C16_QueryTimeBounds ==
    [][QueryAnswered =>
        LET params == response'.request[1]
            InWindow(ms) ==
                /\ params.start_timestamp # None => params.start_timestamp[1] <= ms
                /\ params.end_timestamp # None => ms <= params.end_timestamp[1]
        IN  \A hit \in response'.body :
                /\ InWindow(hit.id[1])
                /\ \A kv \in db'[get_tree_name(hit.level, hit.host, hit.app)] :
                        InWindow(kv.key[1]) =>
                            \E other \in response'.body :
                                /\ other.id = kv.key
                                /\ other.level = hit.level
                                /\ other.host = hit.host
                                /\ other.app = hit.app]_vars

(* Claims about the storage *)

\* a query or an info call of the storage returned a list
StorageQueryAnswered == response'.handler = "Storage::query" /\ response'.result = "Ok"
StorageInfoAnswered == response'.handler = "Storage::info"

\* the raw tree names other than sled's default tree
RawNames(store) == DOMAIN store \ {SledDefault}

\* C12: info() of the storage never fails because of one partition: it
\* returns one element per raw partition name other than the default one; a
\* name that parses and whose partition is not empty gives a summary with the
\* timestamps of the first and the last key, an empty partition gives an error
\* element naming it, and a name that does not parse gives an error element.
C12_InfoPerPartition ==
    [][StorageInfoAnswered =>
        /\ response'.result = "Ok"
        /\ \E order \in Orderings(RawNames(db)) :
            /\ DOMAIN response'.body = DOMAIN order
            /\ \A i \in DOMAIN order :
                LET name == order[i]
                    element == response'.body[i]
                IN  IF from_bytes(name).ok /\ db[name] # {}
                    THEN /\ element.ok
                         /\ element.value.host = from_bytes(name).value.host
                         /\ element.value.app = from_bytes(name).value.app
                         /\ element.value.level = from_bytes(name).value.level
                         /\ \A kv \in db[name] :
                                /\ element.value.min <= kv.key[1]
                                /\ kv.key[1] <= element.value.max
                         /\ \E kv \in db[name] : element.value.min = kv.key[1]
                         /\ \E kv \in db[name] : element.value.max = kv.key[1]
                    ELSE /\ ~element.ok
                         /\ element.error.name = name
                         /\ element.error.kind =
                                IF from_bytes(name).ok THEN "empty" ELSE "invalid"]_vars

\* info() answered for a store with a filled partition, an empty one and a
\* tree of a malformed name: three elements, one of them a summary
C12_Witness ==
    /\ response.handler = "Storage::info"
    /\ Len(response.body) = 3
    /\ Cardinality({i \in DOMAIN response.body : response.body[i].ok}) = 1
    /\ ForeignNames.foo_bar \in DOMAIN db
    /\ \E name \in RawNames(db) : from_bytes(name).ok /\ db[name] = {}

\* the claimed order of the severities, most significant first
SeverityOrder == <<"Error", "Warn", "Info", "Debug", "Trace">>
SeverityWeight(level) == CHOOSE i \in DOMAIN SeverityOrder : SeverityOrder[i] = level

\* the partition passes the severity and the name filters of the parameters
Retained(p, params) ==
    /\ SeverityWeight(p.level) <= SeverityWeight(unwrap_or(params.max_log_level, "Info"))
    /\ params.host_contains # None => contains(p.host, params.host_contains[1])
    /\ params.app_contains # None => contains(p.app, params.app_contains[1])

\* the timestamp lies between start_timestamp and end_timestamp
InWindow(ms, params) ==
    /\ params.start_timestamp # None => params.start_timestamp[1] <= ms
    /\ params.end_timestamp # None => ms <= params.end_timestamp[1]

\* the message passes message_not_matches and message_matches
PassesMessageFilters(message, params) ==
    /\ params.message_not_matches = None
           \/ ~contains(message, params.message_not_matches[1])
    /\ params.message_matches = None \/ contains(message, params.message_matches[1])

\* the hits of a list that come from one partition, in the order of the list
HitsOf(body, p) ==
    SelectSeq(body, LAMBDA hit : hit.host = p.host /\ hit.app = p.app
                                     /\ hit.level = p.level)

\* the stored entries of a partition
EntriesOf(store, p) ==
    IF get_tree_name(p.level, p.host, p.app) \in DOMAIN store
    THEN store[get_tree_name(p.level, p.host, p.app)] ELSE {}

\* C14: query() of the storage orders the severities Error < Warn < Info <
\* Debug < Trace and retains a partition exactly when its weight is at most
\* the weight of max_log_level (Info when absent) and its host and
\* application contain host_contains and app_contains: every hit comes from
\* such a partition, and without further filters every entry of such a
\* partition is a hit.
C14_StorageSeverityFilter ==
    [][StorageQueryAnswered =>
        LET params == response'.request[1]
        IN  /\ \A i \in DOMAIN response'.body :
                    Retained(response'.body[i], params)
            /\ (/\ params.start_timestamp = None
                /\ params.end_timestamp = None
                /\ params.message_matches = None
                /\ params.message_not_matches = None
                /\ params.max_results = None) =>
                    \A p \in StoragePartitions :
                        Retained(p, params) =>
                            \A kv \in EntriesOf(db, p) :
                                \E i \in DOMAIN response'.body :
                                    /\ response'.body[i].id = kv.key
                                    /\ HitsOf(<<response'.body[i]>>, p) # <<>>]_vars

\* a query without max_log_level over filled Error, Info and Debug
\* partitions returned Error and Info hits and no Debug hit
C14_Witness ==
    /\ response.handler = "Storage::query"
    /\ response.result = "Ok"
    /\ response.request[1].max_log_level = None
    /\ response.request[1].host_contains = None
    /\ \A p \in StoragePartitions : EntriesOf(db, p) # {}
    /\ \E i \in DOMAIN response.body : response.body[i].level = "Error"
    /\ \E i \in DOMAIN response.body : response.body[i].level = "Info"
    /\ \A i \in DOMAIN response.body : response.body[i].level # "Debug"

\* C17: a time-range query of the storage returns of every retained
\* partition exactly the entries whose timestamp t satisfies
\* start <= t <= end, an absent bound being unbounded, and the hits of one
\* partition come in increasing id order.
C17_StorageTimeRange ==
    [][(/\ StorageQueryAnswered
        /\ response'.request[1].message_matches = None
        /\ response'.request[1].message_not_matches = None
        /\ response'.request[1].max_results = None) =>
        LET params == response'.request[1]
        IN  \A p \in StoragePartitions :
                LET hits == HitsOf(response'.body, p)
                IN  /\ {hits[i].id : i \in DOMAIN hits} =
                           IF Retained(p, params)
                           THEN {kv.key : kv \in {e \in EntriesOf(db, p) :
                                                     InWindow(e.key[1], params)}}
                           ELSE {}
                    /\ \A i, j \in DOMAIN hits :
                           i < j => (KeyLeq(hits[i].id, hits[j].id)
                                        /\ hits[i].id # hits[j].id)]_vars

\* a query for the window from 1 to 1 over a partition with entries before,
\* on both ends of, and after that millisecond returned the two inside
C17_Witness ==
    /\ response.handler = "Storage::query"
    /\ response.result = "Ok"
    /\ response.request[1].start_timestamp = Some(1)
    /\ response.request[1].end_timestamp = Some(1)
    /\ response.request[1].max_results = None
    /\ response.request[1].message_matches = None
    /\ response.request[1].message_not_matches = None
    /\ \E p \in StoragePartitions :
        /\ {kv.key : kv \in EntriesOf(db, p)} = {e.id : e \in StorageEntries}
        /\ Len(HitsOf(response.body, p)) = 2
        /\ HitsOf(response.body, p)[1].id = <<1, 0>>
        /\ HitsOf(response.body, p)[2].id = <<1, RandAllOnes>>

\* C18: with message filters an entry of a retained partition and of the
\* time range is a hit exactly when message_not_matches is unset or does not
\* match its message and message_matches is unset or matches it; exclusion
\* wins over inclusion.
C18_MessageFilters ==
    [][(StorageQueryAnswered /\ response'.request[1].max_results = None) =>
        LET params == response'.request[1]
        IN  \A p \in StoragePartitions :
                LET hits == HitsOf(response'.body, p)
                IN  {[id |-> hits[i].id, data |-> hits[i].data] : i \in DOMAIN hits} =
                        IF Retained(p, params)
                        THEN {[id |-> kv.key, data |-> kv.value.bincode] :
                                kv \in {e \in EntriesOf(db, p) :
                                          /\ InWindow(e.key[1], params)
                                          /\ PassesMessageFilters(
                                                 e.value.bincode.message, params)}}
                        ELSE {}]_vars

\* a query with message_matches "an" and message_not_matches "ban" over a
\* retained partition that holds banana returned nothing
C18_Witness ==
    /\ response.handler = "Storage::query"
    /\ response.result = "Ok"
    /\ response.request[1].message_matches = Some(Patterns.an)
    /\ response.request[1].message_not_matches = Some(Patterns.ban)
    /\ response.request[1].start_timestamp = None
    /\ response.request[1].end_timestamp = None
    /\ response.request[1].max_results = None
    /\ response.body = <<>>
    /\ \E p \in StoragePartitions :
        /\ Retained(p, response.request[1])
        /\ \E kv \in EntriesOf(db, p) : kv.value.bincode = Messages.banana

\* a pattern of the parameters is not a regular expression
Malformed(params) ==
    \/ params.message_matches # None /\ ~regex_new(params.message_matches[1]).ok
    \/ params.message_not_matches # None /\ ~regex_new(params.message_not_matches[1]).ok

\* C19: a malformed message_matches or message_not_matches makes query()
\* fail with the Regex error before any partition is opened or scanned: no
\* partial result is returned and the store is as it was, whatever it holds.
C19_MalformedRegex ==
    [][(response'.handler = "Storage::query" /\ Malformed(response'.request[1])) =>
        /\ response'.result = "Err"
        /\ response'.error = "Regex"
        /\ response'.body = <<>>
        /\ db' = db]_vars

\* a query with a malformed pattern failed over a store that holds entries
\* of a retained partition and a tree whose name is not in canonical form
C19_Witness ==
    /\ response.handler = "Storage::query"
    /\ response.result = "Err"
    /\ Malformed(response.request[1])
    /\ ForeignNames.upper_info \in DOMAIN db
    /\ get_tree_name("Info", <<"h">>, <<"a">>) \notin DOMAIN db
    /\ \E p \in StoragePartitions :
        Retained(p, response.request[1]) /\ EntriesOf(db, p) # {}

\* C20: with max_results = m the number of hits never exceeds m plus the
\* number of retained partitions, and once the count of hits exceeds m no
\* entry of a later partition is emitted.
C20_MaxResultsBound ==
    [][(StorageQueryAnswered /\ response'.request[1].max_results # None) =>
        LET params == response'.request[1]
            m == params.max_results[1]
            retained == {t \in parsed_tree_names(db) : Retained(t, params)}
        IN  /\ Len(response'.body) <= m + Cardinality(retained)
            /\ \A i, j \in DOMAIN response'.body :
                   (m < i /\ i < j) =>
                       HitsOf(<<response'.body[j]>>, response'.body[i]) # <<>>]_vars

\* a query with max_results = 1 stopped after its second hit although the
\* retained partitions held more entries
C20_Witness ==
    /\ response.handler = "Storage::query"
    /\ response.result = "Ok"
    /\ response.request[1].max_results = Some(1)
    /\ response.request[1].message_matches = None
    /\ response.request[1].message_not_matches = None
    /\ response.request[1].start_timestamp = None
    /\ response.request[1].end_timestamp = None
    /\ Len(response.body) = 2
    /\ Cardinality({p \in StoragePartitions :
           Retained(p, response.request[1]) /\ EntriesOf(db, p) # {}}) >= 2

\* C21: with no filter other than max_results = m, query() returns every
\* entry of the retained partitions when there are at most m of them, and
\* otherwise never more than m hits (m = 0 included).
C21_MaxResultsExact ==
    [][(/\ StorageQueryAnswered
        /\ response'.request[1].max_results # None
        /\ response'.request[1].start_timestamp = None
        /\ response'.request[1].end_timestamp = None
        /\ response'.request[1].message_matches = None
        /\ response'.request[1].message_not_matches = None) =>
        LET params == response'.request[1]
            m == params.max_results[1]
            all == UNION {{[p |-> p, key |-> kv.key] : kv \in EntriesOf(db, p)} :
                          p \in {q \in StoragePartitions : Retained(q, params)}}
        IN  IF Cardinality(all) <= m
            THEN Len(response'.body) = Cardinality(all)
            ELSE Len(response'.body) <= m]_vars

\* C30: after the subscriber side is dropped the shipper loop terminates:
\* once run has returned the closed-channel error and the hook was given it,
\* run_forever has stopped and is not running any more.
C30_LoopTerminates == ClosedReported => shipper # "running"

\* C28: detail(host, app, severity) returns rows equal to the number of
\* entries of the partition and to the sum of the histogram counts; the
\* histogram maps each UTC calendar date to the number of entries whose id
\* timestamp falls on that date, and a date without entry is absent.
C28_DetailHistogram ==
    [][response'.handler = "Storage::detail" =>
        LET p == response'.request[1]
            detail == response'.body
            entries == EntriesOf(db, p)
            OnDate(date) == {kv \in entries :
                                /\ date * MillisPerDay <= kv.key[1]
                                /\ kv.key[1] < (date + 1) * MillisPerDay}
        IN  /\ response'.result = "Ok"
            /\ detail.host = p.host /\ detail.app = p.app /\ detail.level = p.level
            /\ detail.rows = Cardinality(entries)
            /\ \A date \in DOMAIN detail.row_detail :
                   /\ detail.row_detail[date] = Cardinality(OnDate(date))
                   /\ detail.row_detail[date] > 0
            /\ \A kv \in entries : \E date \in DOMAIN detail.row_detail : kv \in OnDate(date)]_vars

\* detail answered for a partition whose entries fall on two dates
C28_Witness ==
    /\ response.handler = "Storage::detail"
    /\ response.result = "Ok"
    /\ response.body.rows = Cardinality(StorageEntries)
    /\ Cardinality(DOMAIN response.body.row_detail) = 2

\* C29: a partition comes into existence only through submit: detail, query,
\* info and flush never create a partition, and no operation deletes one, so
\* the raw names info reports are the same after such a call as before it.
C29_OnlySubmitCreates ==
    [][/\ DOMAIN db \subseteq DOMAIN db'
       /\ response'.handler \in {"Storage::detail", "Storage::query", "Storage::info",
                                 "Storage::flush"} => RawNames(db') = RawNames(db)]_vars

(* Claims about the parsers and the key encoding *)

\* a segment matches ^[A-Za-z0-9]+$
IsAlnum(segment) ==
    segment # <<>> /\ \A i \in DOMAIN segment : segment[i] \in AlnumChars

\* C24: for every valid host, app and severity, TreeName::from_bytes of the
\* name get_tree_name produces returns exactly that host, app and severity.
C24_TreeNameRoundTrip ==
    [][response'.handler = "Level::get_tree_name" =>
        /\ response'.result = "Ok"
        /\ response'.body = response'.request[1]]_vars

\* the name of a host and an app that differ, at level Debug, was parsed back
C24_Witness ==
    /\ response.handler = "Level::get_tree_name"
    /\ response.result = "Ok"
    /\ response.request[1].level = "Debug"
    /\ response.request[1].host = <<"a", "Z">>
    /\ response.request[1].app = <<"7">>

\* C25: TreeName::from_bytes fails with the parse-partition-name error for
\* every byte sequence that does not hold exactly two '-' bytes, or whose
\* host or app segment does not match ^[A-Za-z0-9]+$, or whose third segment
\* is not a severity name (in any letter case).
C25_TreeNameRejects ==
    [][response'.handler = "TreeName::from_bytes" =>
        LET bytes == response'.request[1]
            dashes == {i \in DOMAIN bytes : bytes[i] = "-"}
            WellFormed ==
                /\ Cardinality(dashes) = 2
                /\ \E i, j \in dashes :
                    /\ i < j
                    /\ IsAlnum(SubSeq(bytes, 1, i - 1))
                    /\ IsAlnum(SubSeq(bytes, i + 1, j - 1))
                    /\ to_lowercase(SubSeq(bytes, j + 1, Len(bytes)))
                           \in {LevelDisplay(level) : level \in LogLevels}
        IN  ~WellFormed =>
                /\ response'.result = "Err"
                /\ response'.error = "ParseTreeNameFromBytes"]_vars

\* a name with two '-' and valid host and app was rejected for its third
\* segment
C25_Witness ==
    /\ response.handler = "TreeName::from_bytes"
    /\ response.result = "Err"
    /\ response.request[1] = <<"h", "-", "Z", "9", "-", "i", "n", "f">>

\* C26: parsing a Host or an App from s succeeds exactly when s is not empty
\* and holds only characters of [A-Za-z0-9], and the value keeps s unchanged.
C26_HostParse ==
    [][response'.handler = "Host::from_str" =>
        IF IsAlnum(response'.request[1])
        THEN response'.result = "Ok" /\ response'.body = response'.request[1]
        ELSE response'.result = "Err"]_vars

\* "abc-123" was rejected
C26_Witness ==
    /\ response.handler = "Host::from_str"
    /\ response.result = "Err"
    /\ response.request[1] = <<"a", "b", "c", "-", "1", "2", "3">>

\* byte-lexicographic order of two keys
RECURSIVE BytesLess(_, _)
BytesLess(x, y) ==
    IF y = <<>> THEN FALSE
    ELSE IF x = <<>> THEN TRUE
    ELSE Head(x) < Head(y) \/ (Head(x) = Head(y) /\ BytesLess(Tail(x), Tail(y)))

\* C27: for all ids a < b the big-endian keys satisfy to_key(a) < to_key(b)
\* byte-lexicographically and have the key length; decoding a key gives back
\* the id it was made from, and decoding a key of another length fails with
\* the invalid-length error.
C27_KeyOrder ==
    [][/\ response'.handler = "u128::to_be_bytes" =>
            LET ids == response'.request[1]
                keys == response'.body
            IN  /\ Len(keys.a) = KeyBytes
                /\ ids.a < ids.b => BytesLess(keys.a, keys.b)
                /\ keys.decoded = Ok(ids.a)
       /\ response'.handler = "ivec_be_to_u128" =>
            IF Len(response'.request[1]) = KeyBytes
            THEN response'.result = "Ok"
            ELSE /\ response'.result = "Err"
                 /\ response'.error = "InvalidLengthBytesForUlid"]_vars

\* two ids whose order differs from the order of their low bytes were encoded
C27_Witness ==
    /\ response.handler = "u128::to_be_bytes"
    /\ response.request[1].a < response.request[1].b
    /\ response.request[1].a % ByteBase > response.request[1].b % ByteBase

(* Claims about batches written and read back *)

\* a query without filters that covers all partitions was answered after the
\* writes
FullScanAnswered ==
    /\ StorageQueryAnswered
    /\ submits # <<>>
    /\ response'.request[1] =
           [max_log_level |-> Some("Debug"), start_timestamp |-> None,
            end_timestamp |-> None, host_contains |-> None, app_contains |-> None,
            message_matches |-> None, message_not_matches |-> None,
            max_results |-> None]

\* the ids of a batch
IdsOf(batch) == {e.id : e \in batch}

\* the batches written, the first and the last
FirstBatch == submits[1].batch
LastBatch == submits[Len(submits)].batch

\* C22 as stated: for any two batches B1 then B2 submitted to the same
\* partition of a fresh store, a full scan returns |B1| + |B2| entries.
C22_CountsAdd ==
    [][(FullScanAnswered /\ Len(submits) = 2) =>
        Len(response'.body) = Cardinality(FirstBatch) + Cardinality(LastBatch)]_vars

\* C22, amended: a full scan returns one entry per id of B1 and B2, which
\* is |B1| + |B2| entries when no id is in both batches.
C22_CountsIds ==
    [][(FullScanAnswered /\ Len(submits) = 2) =>
        /\ Len(response'.body) = Cardinality(IdsOf(FirstBatch) \cup IdsOf(LastBatch))
        /\ IdsOf(FirstBatch) \cap IdsOf(LastBatch) = {} =>
               Len(response'.body) = Cardinality(FirstBatch) + Cardinality(LastBatch)]_vars

\* a full scan after two non-empty batches without a common id returned
\* three entries
C22_Witness ==
    /\ response.handler = "Storage::query"
    /\ Len(submits) = 2
    /\ Cardinality(FirstBatch) = 2
    /\ Cardinality(LastBatch) = 1
    /\ IdsOf(FirstBatch) \cap IdsOf(LastBatch) = {}
    /\ Len(response.body) = 3

----------------------------------------------------------------------------
(* Further claims about the remote shipper *)

\* C33: the per-severity cache is bounded: at every point of every run the
\* number of records cached for a severity does not exceed that severity's
\* limit, also while a send is in flight and records keep arriving.
C33_CacheBounded ==
    \A l \in DOMAIN cache : Cardinality(cache[l]) <= get_limit(cache_limit, l)

\* the DataSender exists (its future may have completed)
Alive == shipper \in {"running", "done"}

\* the records the shipper has taken off the channel
Held == (1..accepted) \ ReceiverData

\* the places that hold record d: a cached batch, the batch of the send in
\* flight, the batch of a send that has completed; each with its severity
Places(d) ==
    UNION {{<<"cache", l, e.id>> : e \in {x \in cache[l] : x.data = d}} :
                l \in DOMAIN cache}
    \cup (IF SenderState \in {"new", "pending"}
          THEN {<<"sender", sender[1].level, e.id>> :
                    e \in {x \in sender[1].batch : x.data = d}}
          ELSE {})
    \cup UNION {{<<i, submits[i].level, e.id>> :
                    e \in {x \in submits[i].batch : x.data = d}} :
                i \in 1..Len(submits)}

SeveritiesOf(d) == {place[2] : place \in Places(d)}

\* C36: record conservation in the remote shipper: while the DataSender is
\* alive each record received from the channel is in exactly one of the
\* cache, the batch in flight and a batch whose send has completed; it enters
\* under the severity it was logged with and never changes severity.
C36_Conservation ==
    [][Alive' =>
        \A d \in Held' :
            /\ Cardinality(Places(d)') = 1
            /\ SeveritiesOf(d)' = IF d \in Received
                                  THEN {Head(receiver).level}
                                  ELSE SeveritiesOf(d)]_vars

\* records in all three places at once: cached, in flight, completed
C36_Witness ==
    /\ Alive
    /\ SenderState = "pending"
    /\ \E l \in DOMAIN cache : cache[l] # EmptyBatch
    /\ submits # <<>>

\* C38: the shutdown drainer issues a submit request only for severities
\* whose cached batch is non-empty.
C38_DrainsNonEmpty == \A a \in drained : a.batch # EmptyBatch

----------------------------------------------------------------------------
(* Further claims about the local shipper *)

\* C37: when storage.submit fails for one severity's batch, the records
\* cached for the other severities are not destroyed: each of their levels is
\* still in the cache after run returned the error, or was delivered.
C37_OtherSeveritiesKept ==
    [][SubmitFailed =>
        \A l \in (DOMAIN cache) \ {FailedLevel} :
            /\ BatchData(cache[l]) \cap lost' = {}
            /\ \/ l \in DOMAIN cache' /\ cache[l] \subseteq cache'[l]
               \/ BatchData(cache[l]) \subseteq StoredData(db')]_vars

----------------------------------------------------------------------------
(* Further claims about the handlers and the storage *)

\* the QueryParams of a request, the fields the handler does not read absent
FullParams(params) ==
    [max_log_level |-> params.max_log_level,
     start_timestamp |-> params.start_timestamp,
     end_timestamp |-> params.end_timestamp,
     host_contains |-> params.host_contains,
     app_contains |-> params.app_contains,
     message_matches |-> None,
     message_not_matches |-> None,
     max_results |-> None]

\* C34: the HTTP query handler is equivalent to the storage query: for every
\* store content and every QueryParams, GET /query returns the same set of
\* hits as Storage::query with the same params.
C34_QueryEquivalence ==
    [][QueryAnswered =>
        LET params == FullParams(response'.request[1])
            trees == storage_relevant_trees(parsed_tree_names(db), params)
            order == CHOOSE o \in Orderings(trees) : TRUE
            out == storage_query(db, params, order, 0, 0)
        IN  /\ out.result.ok
            /\ Range(out.result.value) = response'.body]_vars

\* C40: for every raw partition name b that TreeName::from_bytes accepts,
\* to_string(from_bytes(b)) equals b, the letter case of the severity segment
\* included, so that a query opens the partitions under the names it found.
C40_NameRoundTrip ==
    [][(response'.handler = "TreeName::from_bytes" /\ response'.result = "Ok") =>
        to_string(response'.body) = response'.request[1]]_vars

----------------------------------------------------------------------------
(* Further claims about the Subscriber *)

\* C39: Subscriber::log forwards a record to the shipper channel only if
\* Subscriber::enabled is true for the record's level: only records at least
\* as significant as the configured level are ever on the channel.
C39_OnlyEnabledForwarded ==
    \A i \in 1..Len(receiver) : enabled(receiver[i].level)

----------------------------------------------------------------------------
(* Claims about the wake-ups of the remote shipper and about flush *)

\* poll has returned Pending and the task was not woken since
Parked == shipper = "running" /\ ~cx.woken

\* C31: whenever the remote shipper's poll returns Pending, a wake-up is
\* registered for the next record and, if a send is in flight, for that
\* send's completion (a send holds the waker from its first poll on).
C31_WakeRegistered ==
    Parked => /\ cx.receiver
              /\ sender # <<>> => SenderState = "pending"

\* the consequence C31 draws: every record placed on the channel is
\* eventually received
RecordsReceived == (receiver # <<>>) ~> (receiver = <<>>)

\* C32: every call to Subscriber::flush eventually returns.
C32_FlushReturns == (flush_request # <<>>) ~> (flush_request = <<>>)

\* why a flush call waits: no step of the remote shipper takes a request off
\* the flush channel; a request leaves it only when the DataSender is dropped
FlushEndsAtDrop ==
    [][(flush_request # <<>> /\ flush_request' = <<>>) => shipper' = "dropped"]_vars

\* a batch below its size limit whose oldest entry is older than cache_timeout
Stale(l) ==
    /\ l \in DOMAIN cache
    /\ cache[l] # EmptyBatch
    /\ Cardinality(cache[l]) < get_limit(cache_limit, l)
    /\ now - Oldest(cache[l]).id[1] > cache_timeout

\* C35: age-based shipping is live: a batch that stays below its size limit
\* is eventually shipped once its oldest entry is older than cache_timeout,
\* even if no further record arrives.
C35_AgeShipping ==
    \A l \in LoggedLevels :
        Stale(l) ~> (l \notin DOMAIN cache \/ cache[l] = EmptyBatch)

====
